---- MODULE Spec2Model ----
(***************************************************************************)
(* The consent engine (models/Consent.js and the request, grant, revoke    *)
(* and read handlers of the doctor and patient controllers) and the audit  *)
(* ledger (blockchain.js) of the EHR backend, as a state machine.          *)
(*                                                                         *)
(* Node runs one handler at a time between two awaits: every action below  *)
(* is the code of one handler from one await to the next (the awaits that  *)
(* only read the user accounts, which no handler here writes, are joined   *)
(* to the step that follows them).  res.json() is synchronous: `resp` is   *)
(* the response a step has just written, and it is on its way to the       *)
(* client (Sent) before the event loop runs another step.  The Mongo       *)
(* collection of consents is the sequence `consents` (a document's _id is  *)
(* its position; no code path deletes one), the ledger singleton is the    *)
(* sequence `chain`, and `now` is the wall clock.                          *)
(***************************************************************************)
EXTENDS Integers, Sequences, FiniteSets, TLC

VARIABLES now, consents, records, chain, pristine, pc, local, resp, probe

vars == <<now, consents, records, chain, pristine, pc, local, resp, probe>>

---------------------------------------------------------------------------
(* Bounds of the model.                                                    *)

\* the clock runs from 0 to MaxTime
MaxTime == 1
\* the ledger holds at most MaxChain blocks, genesis included
MaxChain == 3
\* a hex digit of a hash is one of 0..HexBase-1 (16 in SHA-256's hex digest)
HexBase == 2
\* the clock of the read-only specification runs from 0 to ReadMaxTime days
ReadMaxTime == 32
MaxHistory == 2

\* an absent date (undefined / null)
NoDate == -1

Patients == {"p1"}
Doctors == {"d1"}
Procs == {"h1", "h2"}
None == "none"

---------------------------------------------------------------------------
(* blockchain.js                                                           *)

difficulty == 2

RECURSIVE Pow(_, _)
Pow(b, e) == IF e = 0 THEN 1 ELSE b * Pow(b, e - 1)

\* JSON.stringify(data) of a payload that is not an object: the string itself
StringData(s) ==
    [isObject |-> FALSE, type |-> s, patientId |-> None, doctorId |-> None,
     actorId |-> None, targetId |-> None, uploaderId |-> None, userId |-> None,
     verifierId |-> None, recordId |-> None, fileHash |-> None,
     action |-> None, validUntil |-> NoDate]

ActionCode(a) ==
    CASE a = "REQUESTED" -> 1
      [] a = "GRANTED"   -> 2
      [] a = "REVOKED"   -> 3
      [] a = "VIEW"      -> 4
      [] OTHER           -> 0

\* The digest's dependence on the payload: a number read off its fields.
PayloadCode(data) ==
    ActionCode(data.action) + (IF data.validUntil = NoDate THEN 0 ELSE data.validUntil)
      + (IF data.doctorId = "d2" \/ data.actorId = "d2" THEN 1 ELSE 0)

\* The first `difficulty` hex digits of a digest, most significant first.
RECURSIVE Digits(_, _)
Digits(n, k) ==
    IF k = 0 THEN <<>> ELSE Append(Digits(n \div HexBase, k - 1), n % HexBase)

\* Block.calculateHash: SHA-256 over index + previousHash + timestamp +
\* JSON.stringify(data) + nonce.  The digest is its leading `difficulty` digits
\* (a mixing function of every field) and the rest, which is collision free:
\* two digests are equal only when every hashed field is.
calculateHash(index, previousHash, timestamp, data, nonce) ==
    [lead |-> Digits((index + 3 * timestamp + PayloadCode(data) + Len(previousHash.lead)
                        + nonce) % Pow(HexBase, difficulty), difficulty),
     body |-> <<index, previousHash, timestamp, data, nonce>>]

HashOf(b) == calculateHash(b.index, b.previousHash, b.timestamp, b.data, b.nonce)

\* the previousHash '0' of the genesis block
ZeroHash == [lead |-> <<0>>, body |-> <<>>]

\* new Block(index, timestamp, data, previousHash): nonce 0, hash computed once
NewBlock(index, timestamp, data, previousHash) ==
    [index |-> index, timestamp |-> timestamp, data |-> data,
     previousHash |-> previousHash, nonce |-> 0,
     hash |-> calculateHash(index, previousHash, timestamp, data, 0)]

\* Array(difficulty + 1).join('0')
Target == [i \in 1..difficulty |-> 0]

\* a variant of the loop body that hashes before it increments the nonce
MineStepHashFirst(b) == [b EXCEPT !.hash = HashOf(b), !.nonce = b.nonce + 1]

\* one turn of mineBlock's loop: this.nonce++; this.hash = this.calculateHash()
MineStep(b) ==
    LET c == [b EXCEPT !.nonce = b.nonce + 1]
    IN  [c EXCEPT !.hash = HashOf(c)]

\* a variant of mineBlock that returns the block as it was built
MineNothing(b) == b

\* Block.mineBlock(difficulty)
RECURSIVE mineBlock(_)
mineBlock(b) ==
    IF SubSeq(b.hash.lead, 1, difficulty) # Target
    THEN mineBlock(MineStep(b))
    ELSE b

createGenesisBlock(t) == NewBlock(0, t, StringData("Genesis Block"), ZeroHash)

getLatestBlock(c) == c[Len(c)]

\* a variant that links to the first block instead of the latest
PreviousOfFirst(c) == c[1]

\* the block whose hash a new block links to
LinkTarget(c) == getLatestBlock(c)

\* a variant of addBlock that numbers the block by the length of the chain
AddBlockIndexFromLength(c, data, t) ==
    mineBlock(NewBlock(Len(c) + 1, t, data, LinkTarget(c).hash))

\* Blockchain.addBlock(data) at time t: the block it mines, pushes and returns
addBlock(c, data, t) ==
    mineBlock(NewBlock(LinkTarget(c).index + 1, t, data, LinkTarget(c).hash))

ObjectData(type) == [StringData(type) EXCEPT !.isObject = TRUE]

\* Blockchain.recordConsent(patientId, doctorId, action, validUntil = null)
ConsentData(patientId, doctorId, action, validUntil) ==
    [ObjectData("CONSENT") EXCEPT !.patientId = patientId, !.doctorId = doctorId,
                                  !.action = action, !.validUntil = validUntil]

\* an ACCESS payload that names the record as its target and not the patient
AccessDataOfRecord(actorId, targetId, action, recordId) ==
    [ObjectData("ACCESS") EXCEPT !.actorId = actorId, !.targetId = recordId,
                                 !.action = action, !.recordId = recordId]

\* Blockchain.recordAccess(actorId, targetId, action, recordId = null)
AccessData(actorId, targetId, action, recordId) ==
    [ObjectData("ACCESS") EXCEPT !.actorId = actorId, !.targetId = targetId,
                                 !.action = action, !.recordId = recordId]

\* Blockchain.recordUpload(recordId, patientId, uploaderId, fileHash)
UploadData(recordId, patientId, uploaderId, fileHash) ==
    [ObjectData("UPLOAD") EXCEPT !.recordId = recordId, !.patientId = patientId,
                                 !.uploaderId = uploaderId, !.fileHash = fileHash]

\* Blockchain.recordVerification(userId, verifierId, action)
VerificationData(userId, verifierId, action) ==
    [ObjectData("VERIFICATION") EXCEPT !.userId = userId, !.verifierId = verifierId,
                                       !.action = action]

\* the entry that the queries build from a block
BlockEntry(b) ==
    [blockIndex |-> b.index, timestamp |-> b.timestamp, hash |-> b.hash, data |-> b.data]

\* c.filter(Keep).map(BlockEntry) with Keep given as the set of kept positions
RECURSIVE EntriesAt(_, _, _)
EntriesAt(c, keep, i) ==
    IF i > Len(c) THEN <<>>
    ELSE (IF i \in keep THEN <<BlockEntry(c[i])>> ELSE <<>>) \o EntriesAt(c, keep, i + 1)

\* Array.prototype.sort((a, b) => b.timestamp - a.timestamp): stable, latest first
RECURSIVE InsertLatestFirst(_, _)
InsertLatestFirst(s, e) ==
    IF s = <<>> THEN <<e>>
    ELSE IF Head(s).timestamp >= e.timestamp THEN <<Head(s)>> \o InsertLatestFirst(Tail(s), e)
    ELSE <<e>> \o s

RECURSIVE SortLatestFirst(_)
SortLatestFirst(s) ==
    IF s = <<>> THEN <<>>
    ELSE InsertLatestFirst(SortLatestFirst(SubSeq(s, 1, Len(s) - 1)), s[Len(s)])

\* a variant of getAuditTrail that returns the blocks in chain order
GetAuditTrailUnsorted(c, userId) ==
    EntriesAt(c, {i \in DOMAIN c :
        /\ c[i].data.isObject
        /\ \/ c[i].data.patientId = userId
           \/ c[i].data.doctorId = userId
           \/ c[i].data.actorId = userId
           \/ c[i].data.targetId = userId
           \/ c[i].data.uploaderId = userId
           \/ c[i].data.userId = userId}, 1)

\* Blockchain.getAuditTrail(userId)
getAuditTrail(c, userId) ==
    SortLatestFirst(EntriesAt(c, {i \in DOMAIN c :
        /\ c[i].data.isObject
        /\ \/ c[i].data.patientId = userId
           \/ c[i].data.doctorId = userId
           \/ c[i].data.actorId = userId
           \/ c[i].data.targetId = userId
           \/ c[i].data.uploaderId = userId
           \/ c[i].data.userId = userId}, 1))

\* Blockchain.getBlocksByType(type); a string payload has no type
getBlocksByType(c, type) ==
    EntriesAt(c, {i \in DOMAIN c : c[i].data.isObject /\ c[i].data.type = type}, 1)

\* a variant of isChainValid that compares the links only
IsChainValidNoHashCheck(c) ==
    \A i \in 2..Len(c) : c[i].previousHash = c[i - 1].hash

\* Blockchain.isChainValid(): the loop from i = 1, returning at the first mismatch
RECURSIVE ChainValidFrom(_, _)
ChainValidFrom(c, i) ==
    IF i > Len(c) THEN TRUE
    ELSE IF c[i].hash # HashOf(c[i]) THEN FALSE
    ELSE IF c[i].previousHash # c[i - 1].hash THEN FALSE
    ELSE ChainValidFrom(c, i + 1)

isChainValid(c) == ChainValidFrom(c, 2)

---------------------------------------------------------------------------
(* models/Consent.js                                                       *)

AccessActions == {"view", "download", "update", "share"}

NoPermissions ==
    [canView |-> FALSE, canDownload |-> FALSE, canUpdate |-> FALSE, canShare |-> FALSE]

\* the schema defaults of permissions: canView true, the others false
DefaultPermissions == [NoPermissions EXCEPT !.canView = TRUE]

\* new Consent({...}) at time t: the fields given, the schema defaults for the rest
NewConsent(patientId, doctorId, status, consentType, permissions, allowedCategories, validUntil, t) ==
    [patientId |-> patientId, doctorId |-> doctorId, status |-> status,
     consentType |-> consentType, permissions |-> permissions,
     allowedCategories |-> allowedCategories, validFrom |-> t,
     validUntil |-> validUntil, blockchainHash |-> ZeroHash,
     accessHistory |-> <<>>, isActive |-> TRUE,
     grantedAt |-> NoDate, revokedAt |-> NoDate]

\* the local `consent` of a handler that holds no document
NoConsent ==
    NewConsent(None, None, None, None, NoPermissions, {}, NoDate, NoDate)

\* a variant of isValid whose window includes validUntil
IsValidInclusiveEnd(c, t) ==
    c.status = "granted" /\ c.validFrom <= t /\ c.validUntil >= t /\ c.isActive

\* the virtual isValid, read at time t
isValid(c, t) ==
    c.status = "granted" /\ c.validFrom <= t /\ c.validUntil > t /\ c.isActive

Statuses == {"pending", "granted", "revoked", "expired"}
ConsentTypes == {"full-access", "limited-access", "emergency-only", "specific-records"}

\* a variant of the validators without the comparison with validFrom
ValidatorsRequiredOnly(c) == c.validUntil # NoDate

\* the validators run by save() and validate(): validUntil is required and
\* must be after this.validFrom
ValidatorsPass(c) ==
    c.validUntil # NoDate /\ c.validUntil > c.validFrom

\* document.validate() of a new document: the required paths, the enums
\* and the validators of validUntil ('' for blockchainHash is ZeroHash)
validate(c) ==
    /\ c.patientId # None
    /\ c.doctorId # None
    /\ c.status \in Statuses
    /\ c.consentType \in ConsentTypes
    /\ c.blockchainHash # ZeroHash
    /\ ValidatorsPass(c)

\* a variant of extend that also grants
ExtendAndGrant(c, days) == [c EXCEPT !.validUntil = c.validUntil + days, !.status = "granted"]

\* Consent.methods.extend(days) up to its save()
extend(c, days) == [c EXCEPT !.validUntil = c.validUntil + days]

\* pre('save'): a modified status sets that status's timestamp
PreSave(c, statusModified, t) ==
    IF ~statusModified THEN c
    ELSE CASE c.status = "granted" -> [c EXCEPT !.grantedAt = t]
           [] c.status = "revoked" -> [c EXCEPT !.revokedAt = t]
           [] OTHER -> c

\* Model.findOne(filter), given the positions of the documents that match the
\* filter: the first of them, 0 for null
findOne(hits) ==
    IF hits = {} THEN 0 ELSE CHOOSE i \in hits : \A j \in hits : i <= j

\* a variant of the pair's filter that looks at the patient only
SamePatient(c, patientId, doctorId) ==
    c.patientId = patientId

SamePair(c, patientId, doctorId) ==
    c.patientId = patientId /\ c.doctorId = doctorId

\* a variant of the filter without validUntil
HasAccessFilterNoEnd(c, doctorId, patientId, t) ==
    /\ SamePair(c, patientId, doctorId)
    /\ c.status = "granted"
    /\ c.validFrom <= t
    /\ c.isActive

\* a variant of the filter without isActive
HasAccessFilterNoActive(c, doctorId, patientId, t) ==
    /\ SamePair(c, patientId, doctorId)
    /\ c.status = "granted"
    /\ c.validFrom <= t
    /\ c.validUntil > t

\* the filter of hasAccess's findOne
HasAccessFilter(c, doctorId, patientId, t) ==
    /\ SamePair(c, patientId, doctorId)
    /\ c.status = "granted"
    /\ c.validFrom <= t
    /\ c.validUntil > t
    /\ c.isActive

\* Consent.hasAccess(doctorId, patientId, action) called at time t
hasAccess(db, t, doctorId, patientId, action) ==
    LET i == findOne({j \in DOMAIN db : HasAccessFilter(db[j], doctorId, patientId, t)})
    IN  IF i = 0 THEN FALSE
        ELSE CASE action = "view"     -> db[i].permissions.canView
               [] action = "download" -> db[i].permissions.canDownload
               [] action = "update"   -> db[i].permissions.canUpdate
               [] action = "share"    -> db[i].permissions.canShare
               [] OTHER               -> FALSE

\* a collection without the unique index
UniqueIndexOff(db, c) == TRUE

\* the unique index on {patientId, doctorId}: an insert of a second document
\* for a pair fails with a duplicate key error
UniqueIndexAllows(db, c) ==
    \A i \in DOMAIN db : ~SamePair(db[i], c.patientId, c.doctorId)

\* a variant of save() that writes the whole document as the handler holds it
WriteWhole(stored, loaded, cur) == cur

\* save() of a loaded document: $set of the paths whose value differs from the
\* loaded one, $push of the entries added to accessHistory
WriteModified(stored, loaded, cur) ==
    [f \in DOMAIN stored |->
        IF f = "accessHistory"
        THEN stored[f] \o SubSeq(cur[f], Len(loaded[f]) + 1, Len(cur[f]))
        ELSE IF cur[f] # loaded[f] THEN cur[f] ELSE stored[f]]

---------------------------------------------------------------------------
(* models/AuditLog.js                                                       *)

\* the enum of the schema's action
AuditActions ==
    {"LOGIN", "LOGOUT", "REGISTER", "PASSWORD_CHANGE",
     "RECORD_UPLOAD", "RECORD_VIEW", "RECORD_DOWNLOAD", "RECORD_UPDATE", "RECORD_DELETE",
     "CONSENT_REQUEST", "CONSENT_GRANT", "CONSENT_REVOKE", "CONSENT_EXPIRE",
     "USER_APPROVE", "USER_REJECT", "USER_DEACTIVATE", "USER_ACTIVATE",
     "SYSTEM_BACKUP", "SYSTEM_RESTORE", "SYSTEM_MAINTENANCE",
     "UNAUTHORIZED_ACCESS", "FAILED_LOGIN", "SUSPICIOUS_ACTIVITY"}

\* the options argument: isNull for a null passed in its place, and None for
\* a field it does not carry
NoOptions ==
    [isNull |-> FALSE, resourceType |-> None, targetModel |-> None,
     severity |-> None, status |-> None]

\* `x || dflt`
OrElse(x, dflt) == IF x = None THEN dflt ELSE x

\* null in the place of an entry
NoEntry ==
    [actorId |-> None, action |-> None, description |-> None, resourceType |-> None,
     targetModel |-> None, severity |-> None, status |-> None]

\* what logActivity gives back: threw (the promise rejects) or the value
Threw == [threw |-> TRUE, value |-> NoEntry]
Returned(v) == [threw |-> FALSE, value |-> v]

\* the object built at lines 113-130; a description is "text", "long" (over
\* 500 characters) or None
AuditData(actorId, action, description, options) ==
    [actorId |-> actorId, action |-> action, description |-> description,
     resourceType |-> OrElse(options.resourceType, "system"),
     targetModel |-> options.targetModel,
     severity |-> OrElse(options.severity, "medium"),
     status |-> OrElse(options.status, "success")]

\* validators of a schema whose action is any string
AuditValidAnyAction(d) ==
    /\ d.action # None
    /\ d.description = "text"
    /\ d.resourceType \in {"user", "record", "consent", "system"}
    /\ d.targetModel \in {None, "User", "Record", "Consent"}
    /\ d.severity \in {"low", "medium", "high", "critical"}
    /\ d.status \in {"success", "failure", "warning"}

\* the schema's validators, run by save()
AuditValid(d) ==
    /\ d.action \in AuditActions
    /\ d.description = "text"
    /\ d.resourceType \in {"user", "record", "consent", "system"}
    /\ d.targetModel \in {None, "User", "Record", "Consent"}
    /\ d.severity \in {"low", "medium", "high", "critical"}
    /\ d.status \in {"success", "failure", "warning"}

\* lines 112-134, the body of the try: reading a field of a null options
\* throws, save() rejects on a validation error or when the store is down
LogActivityBody(actorId, action, description, options, storeUp) ==
    IF options.isNull THEN Threw
    ELSE IF ~AuditValid(AuditData(actorId, action, description, options)) THEN Threw
    ELSE IF ~storeUp THEN Threw
    ELSE Returned(AuditData(actorId, action, description, options))

\* a variant of logActivity that lets what its body throws escape
LogActivityUncaught(actorId, action, description, options, storeUp) ==
    LogActivityBody(actorId, action, description, options, storeUp)

\* AuditLog.logActivity: the try and its catch, which returns null
logActivity(actorId, action, description, options, storeUp) ==
    IF LogActivityBody(actorId, action, description, options, storeUp).threw
    THEN Returned(NoEntry)
    ELSE LogActivityBody(actorId, action, description, options, storeUp)

---------------------------------------------------------------------------
(* The handlers' inputs and locals.                                        *)

\* the stored medical records of the patients (written by the upload paths)
SeedRecords ==
    { [id |-> "r1", patientId |-> "p1", category |-> "cardiology", isActive |-> TRUE],
      [id |-> "r2", patientId |-> "p1", category |-> "radiology", isActive |-> TRUE],
      [id |-> "r3", patientId |-> "p1", category |-> "general", isActive |-> TRUE] }

\* req.body without its fields
NoBody ==
    [consentType |-> "", hasPermissions |-> FALSE, permissions |-> NoPermissions, allowedCategories |-> {}]

\* req.body of requestAccess and grantConsent: consentType ('' when absent),
\* permissions (hasPermissions false when absent), allowedCategories
BodyChoices ==
    { NoBody,
      [consentType |-> "limited-access", hasPermissions |-> TRUE,
       permissions |-> [DefaultPermissions EXCEPT !.canUpdate = TRUE],
       allowedCategories |-> {"cardiology", "general"}],
      [consentType |-> "full-access", hasPermissions |-> TRUE,
       permissions |-> [NoPermissions EXCEPT !.canDownload = TRUE],
       allowedCategories |-> {}] }

\* req.body.validUntil when it is given: a date
ValidUntilChoices == {1, MaxTime + 1}

\* the calls of requestAccess (doctorId is req.user._id, an approved doctor):
\* the well-formed ones, one without validUntil, one without patientId, one
\* whose patientId is not a patient's
RequestChoices ==
    [doctorId : Doctors, patientId : Patients, body : BodyChoices, validUntil : ValidUntilChoices]
      \cup { [doctorId |-> "d1", patientId |-> "p1", body |-> NoBody, validUntil |-> NoDate],
             [doctorId |-> "d1", patientId |-> None, body |-> NoBody, validUntil |-> 1],
             [doctorId |-> "d1", patientId |-> "d2", body |-> NoBody, validUntil |-> 1] }

\* the calls of grantConsent (patientId is req.user._id, a patient): the
\* well-formed ones, one without validUntil, one without doctorId, one whose
\* doctorId is not a doctor's
GrantChoices ==
    [doctorId : Doctors, patientId : Patients, body : BodyChoices, validUntil : ValidUntilChoices]
      \cup { [doctorId |-> "d1", patientId |-> "p1", body |-> NoBody, validUntil |-> NoDate],
             [doctorId |-> None, patientId |-> "p1", body |-> NoBody, validUntil |-> 1],
             [doctorId |-> "p1", patientId |-> "p1", body |-> NoBody, validUntil |-> 1] }

\* req.query.category of getPatientRecords: absent, or a category
CategoryChoices == {None, "cardiology", "radiology"}

NoQuery == [restricted |-> FALSE, categories |-> {}]

NoLocal ==
    [op |-> None, patientId |-> None, doctorId |-> None, category |-> None, id |-> 0,
     loaded |-> NoConsent, consent |-> NoConsent, found |-> {}, audit |-> None,
     body |-> NoBody, validUntil |-> NoDate]

NoConsentInfo == [type |-> None, allowedCategories |-> {}]

NoResponse ==
    [op |-> None, patientId |-> None, doctorId |-> None, category |-> None,
     code |-> 0, message |-> None, records |-> {}, consentInfo |-> NoConsentInfo,
     audit |-> None, consent |-> NoConsent]

NoProbe ==
    [called |-> FALSE, doctorId |-> None, patientId |-> None, action |-> None, result |-> FALSE]

\* res.status(code).json({message}) to a call of op for the pair
Response(op, patientId, doctorId, code, message) ==
    [NoResponse EXCEPT !.op = op, !.patientId = patientId, !.doctorId = doctorId,
                       !.code = code, !.message = message]

\* handler h ends with the response r
Finish(h, r) ==
    /\ resp = NoResponse
    /\ resp' = r
    /\ pc' = [pc EXCEPT ![h] = "idle"]
    /\ local' = [local EXCEPT ![h] = NoLocal]

\* handler h goes on to `next` with the locals l
Continue(h, next, l) ==
    /\ resp = NoResponse
    /\ resp' = NoResponse
    /\ pc' = [pc EXCEPT ![h] = next]
    /\ local' = [local EXCEPT ![h] = l]

\* the options of the handlers' calls of logActivity
LogOptions(resourceType, targetModel, severity, status) ==
    [NoOptions EXCEPT !.resourceType = resourceType, !.targetModel = targetModel,
                      !.severity = severity, !.status = status]

\* what came of a handler's call of logActivity: the action of the entry
\* saved, or "failed" for null
Audit(out) == IF out.value = NoEntry THEN "failed" ELSE out.value.action

\* a call is taken by the first idle slot: the slots are interchangeable
FreeSlot(h) ==
    /\ pc[h] = "idle"
    /\ h = "h2" => pc["h1"] # "idle"

\* the handlers that have still to append their block
AwaitingAppend == {"rc_save", "rc_record", "gpr_lookup", "gpr_record", "grc_record"}

\* a handler starts only while the bounded ledger has room for its block
Room ==
    Len(chain) + Cardinality({h \in Procs : pc[h] \in AwaitingAppend}) < MaxChain

\* a variant of the push that overwrites the tail
PushOverTail(block) ==
    /\ chain' = [chain EXCEPT ![Len(chain)] = block]
    /\ pristine' = [pristine EXCEPT ![Len(pristine)] = block.data]

\* this.chain.push(newBlock) of addBlock; `pristine` keeps every payload as it
\* was pushed
Push(block) ==
    /\ chain' = Append(chain, block)
    /\ pristine' = Append(pristine, block.data)

\* `x || dflt` on the body's fields, as requestAccess and grantConsent apply it
BodyConsentType(b) == IF b.consentType = "" THEN "limited-access" ELSE b.consentType
BodyPermissions(b) == IF b.hasPermissions THEN b.permissions ELSE DefaultPermissions

\* the write of a handler's consent: an insert under the unique index, or the
\* update of the loaded document; CanWrite is false when the insert is refused
CanWrite(l) == l.id > 0 \/ UniqueIndexAllows(consents, l.consent)

Written(l) ==
    IF l.id > 0
    THEN [consents EXCEPT ![l.id] = WriteModified(consents[l.id], l.loaded, l.consent)]
    ELSE Append(consents, l.consent)

\* Consent.findOne({patientId, doctorId})
FindPair(patientId, doctorId) ==
    findOne({i \in DOMAIN consents : SamePair(consents[i], patientId, doctorId)})

\* the locals of a handler that found document id (0: none) and is about to save c
Saving(op, patientId, doctorId, id, c) ==
    [NoLocal EXCEPT !.op = op, !.patientId = patientId, !.doctorId = doctorId, !.id = id,
                    !.loaded = IF id > 0 THEN consents[id] ELSE NoConsent, !.consent = c]

---------------------------------------------------------------------------
(* doctorController.requestAccess                                          *)

\* lines 50-71: the consent to save, from the document found (id > 0) or new
RequestedConsent(patientId, doctorId, body, validUntil, id, t) ==
    IF id > 0
    THEN [consents[id] EXCEPT !.status = "pending",
                              !.consentType = BodyConsentType(body),
                              !.permissions = BodyPermissions(body),
                              !.allowedCategories = body.allowedCategories,
                              !.validUntil = validUntil,
                              !.isActive = TRUE]
    ELSE NewConsent(patientId, doctorId, "pending", BodyConsentType(body),
                    BodyPermissions(body), body.allowedCategories, validUntil, t)

\* a variant of the guard without its second test
GuardPendingOnly(c, t) == c.status = "pending"

\* lines 36-48: the duplicate-request guard on the document found
DuplicateGuard(c, t) ==
    \/ c.status = "pending"
    \/ c.status = "granted" /\ isValid(c, t)

\* lines 13-82: the required fields, the patient, the pair's document, the
\* guard, the REQUESTED block, and the call of save() with its validation
RequestAccess(h, doctorId, patientId, body, validUntil) ==
    /\ FreeSlot(h)
    /\ Room
    /\ LET id == FindPair(patientId, doctorId)
           c0 == RequestedConsent(patientId, doctorId, body, validUntil, id, now)
           block == addBlock(chain, ConsentData(patientId, doctorId, "REQUESTED", c0.validUntil), now)
           c1 == PreSave([c0 EXCEPT !.blockchainHash = block.hash], TRUE, now)
           R(code, message) == Response("requestAccess", patientId, doctorId, code, message)
       IN  IF patientId = None \/ validUntil = NoDate
           THEN /\ Finish(h, R(400, "Please provide patientId and validUntil date"))
                /\ UNCHANGED <<chain, pristine>>
           ELSE IF patientId \notin Patients
           THEN /\ Finish(h, R(400, "Invalid patient ID"))
                /\ UNCHANGED <<chain, pristine>>
           ELSE IF id > 0 /\ DuplicateGuard(consents[id], now)
           THEN /\ Finish(h, R(400, IF consents[id].status = "pending"
                                    THEN "Access request already pending"
                                    ELSE "Access already granted and valid"))
                /\ UNCHANGED <<chain, pristine>>
           ELSE /\ Push(block)
                /\ IF ValidatorsPass(c1)
                   THEN Continue(h, "ra_save", [Saving("requestAccess", patientId, doctorId, id, c1)
                                                  EXCEPT !.body = body, !.validUntil = validUntil])
                   ELSE Finish(h, R(400, "Invalid data provided"))
    /\ UNCHANGED <<now, consents, records, probe>>

\* line 82 resolved, and lines 84-141: the response
RequestAccessSave(h, storeUp) ==
    /\ pc[h] = "ra_save"
    /\ LET l == local[h]
           out == logActivity(l.doctorId, "CONSENT_REQUEST", "text",
                              LogOptions("consent", "Consent", "low", "success"), storeUp)
       IN  IF CanWrite(l)
           THEN /\ consents' = Written(l)
                /\ IF out.threw
                   THEN Finish(h, Response(l.op, l.patientId, l.doctorId, 500, "Failed to request access"))
                   ELSE Finish(h, [Response(l.op, l.patientId, l.doctorId, 201, "Access request sent successfully")
                                     EXCEPT !.audit = Audit(out), !.consent = l.consent])
           ELSE /\ UNCHANGED consents
                /\ Finish(h, Response(l.op, l.patientId, l.doctorId, 500, "Failed to request access"))
    /\ UNCHANGED <<now, records, chain, pristine, probe>>

---------------------------------------------------------------------------
(* patientController.grantConsent                                          *)

\* a variant of the update that adds the body's validUntil to the stored one
GrantedConsentExtending(patientId, doctorId, body, validUntil, id, t) ==
    IF id > 0
    THEN [consents[id] EXCEPT !.status = "granted",
                              !.consentType = BodyConsentType(body),
                              !.permissions = BodyPermissions(body),
                              !.allowedCategories = body.allowedCategories,
                              !.validUntil = @ + validUntil,
                              !.isActive = TRUE]
    ELSE NewConsent(patientId, doctorId, "granted", BodyConsentType(body),
                    BodyPermissions(body), body.allowedCategories, validUntil, t)

\* lines 394-416: the consent to save, from the document found (id > 0) or new
GrantedConsent(patientId, doctorId, body, validUntil, id, t) ==
    IF id > 0
    THEN [consents[id] EXCEPT !.status = "granted",
                              !.consentType = BodyConsentType(body),
                              !.permissions = BodyPermissions(body),
                              !.allowedCategories = body.allowedCategories,
                              !.validUntil = validUntil,
                              !.isActive = TRUE]
    ELSE NewConsent(patientId, doctorId, "granted", BodyConsentType(body),
                    BodyPermissions(body), body.allowedCategories, validUntil, t)

\* lines 371-427: the required fields, the doctor, the pair's document, the
\* GRANTED block, and the call of save() with its validation
GrantConsent(h, patientId, doctorId, body, validUntil) ==
    /\ FreeSlot(h)
    /\ Room
    /\ LET id == FindPair(patientId, doctorId)
           c0 == GrantedConsent(patientId, doctorId, body, validUntil, id, now)
           block == addBlock(chain, ConsentData(patientId, doctorId, "GRANTED", c0.validUntil), now)
           c1 == PreSave([c0 EXCEPT !.blockchainHash = block.hash],
                         id = 0 \/ consents[id].status # "granted", now)
           R(code, message) == Response("grantConsent", patientId, doctorId, code, message)
       IN  IF doctorId = None \/ validUntil = NoDate
           THEN /\ Finish(h, R(400, "Please provide doctorId and validUntil date"))
                /\ UNCHANGED <<chain, pristine>>
           ELSE IF doctorId \notin Doctors
           THEN /\ Finish(h, R(400, "Invalid or unapproved doctor"))
                /\ UNCHANGED <<chain, pristine>>
           ELSE /\ Push(block)
                /\ IF ValidatorsPass(c1)
                   THEN Continue(h, "gc_save", [Saving("grantConsent", patientId, doctorId, id, c1)
                                                  EXCEPT !.body = body, !.validUntil = validUntil])
                   ELSE Finish(h, R(500, "Failed to grant consent"))
    /\ UNCHANGED <<now, consents, records, probe>>

\* line 427 resolved, and lines 429-469: the response
GrantSaveStep(h, storeUp) ==
    /\ pc[h] = "gc_save"
    /\ LET l == local[h]
           out == logActivity(l.patientId, "CONSENT_GRANT", "text",
                              LogOptions("consent", "Consent", "medium", "success"), storeUp)
       IN  IF CanWrite(l)
           THEN /\ consents' = Written(l)
                /\ IF out.threw
                   THEN Finish(h, Response(l.op, l.patientId, l.doctorId, 500, "Failed to grant consent"))
                   ELSE Finish(h, [Response(l.op, l.patientId, l.doctorId, 200, "Consent granted successfully")
                                     EXCEPT !.audit = Audit(out), !.consent = l.consent])
           ELSE /\ UNCHANGED consents
                /\ Finish(h, Response(l.op, l.patientId, l.doctorId, 500, "Failed to grant consent"))
    /\ UNCHANGED <<now, records, chain, pristine>>

GrantSave(h, storeUp) == GrantSaveStep(h, storeUp) /\ UNCHANGED probe

---------------------------------------------------------------------------
(* patientController.revokeConsent                                         *)

\* a variant of the filter without isActive
AnyOfPair(c, patientId, doctorId) == SamePair(c, patientId, doctorId)

\* line 487: the filter { patientId, doctorId, isActive: true }
ActiveOfPair(c, patientId, doctorId) == SamePair(c, patientId, doctorId) /\ c.isActive

\* a variant of revoke that stamps revokedAt only
RevokeStampOnly(c, t) == [c EXCEPT !.revokedAt = t]

\* Consent.methods.revoke up to its save()
revoke(c, t) == [c EXCEPT !.status = "revoked", !.revokedAt = t]

\* lines 477-497: the pair's active document, and consent.revoke() up to the
\* call of save() with its validation
RevokeConsent(h, patientId, doctorId) ==
    /\ FreeSlot(h)
    /\ Room
    /\ LET id == findOne({i \in DOMAIN consents : ActiveOfPair(consents[i], patientId, doctorId)})
           R(code, message) == Response("revokeConsent", patientId, doctorId, code, message)
       IN  IF doctorId = None
           THEN Finish(h, R(400, "Please provide doctorId"))
           ELSE IF id = 0
           THEN Finish(h, R(404, "Consent not found"))
           ELSE LET c0 == revoke(consents[id], now)
                    c1 == PreSave(c0, consents[id].status # "revoked", now)
                IN  IF ValidatorsPass(c1)
                    THEN Continue(h, "rc_save", Saving("revokeConsent", patientId, doctorId, id, c1))
                    ELSE Finish(h, R(500, "Failed to revoke consent"))
    /\ UNCHANGED <<now, consents, records, chain, pristine, probe>>

\* line 497 resolved: the update is written
RevokeSave(h) ==
    /\ pc[h] = "rc_save"
    /\ consents' = Written(local[h])
    /\ Continue(h, "rc_record", local[h])
    /\ UNCHANGED <<now, records, chain, pristine, probe>>

\* lines 499-535: the REVOKED block and the response
RevokeRecord(h, storeUp) ==
    /\ pc[h] = "rc_record"
    /\ Push(addBlock(chain, ConsentData(local[h].patientId, local[h].doctorId, "REVOKED", NoDate), now))
    /\ LET l == local[h]
           out == logActivity(l.patientId, "CONSENT_REVOKE", "text",
                              LogOptions("consent", "Consent", "medium", "success"), storeUp)
       IN  IF out.threw
           THEN Finish(h, Response(l.op, l.patientId, l.doctorId, 500, "Failed to revoke consent"))
           ELSE Finish(h, [Response(l.op, l.patientId, l.doctorId, 200, "Consent revoked successfully")
                             EXCEPT !.audit = Audit(out), !.consent = l.consent])
    /\ UNCHANGED <<now, consents, records, probe>>

---------------------------------------------------------------------------
(* doctorController.getPatientRecords                                      *)

\* lines 149-177: Consent.hasAccess resolved; the denial
GetPatientRecords(h, doctorId, patientId, category, storeUp) ==
    /\ FreeSlot(h)
    /\ Room
    /\ LET out == logActivity(doctorId, "UNAUTHORIZED_ACCESS", "text",
                              LogOptions("record", None, "high", "failure"), storeUp)
       IN  IF hasAccess(consents, now, doctorId, patientId, "view")
           THEN Continue(h, "gpr_lookup",
                         [NoLocal EXCEPT !.op = "getPatientRecords", !.patientId = patientId,
                                         !.doctorId = doctorId, !.category = category])
           ELSE IF out.threw
           THEN Finish(h, Response("getPatientRecords", patientId, doctorId, 500,
                                   "Failed to get patient records"))
           ELSE Finish(h, [Response("getPatientRecords", patientId, doctorId, 403,
                                    "No valid consent for accessing this patient data")
                             EXCEPT !.audit = Audit(out)])
    /\ UNCHANGED <<now, consents, records, chain, pristine, probe>>

\* a query that restricts every limited-access consent to its categories
CategoryQueryLimited(c, category) ==
    IF category # None
    THEN [restricted |-> TRUE, categories |-> {category}]
    ELSE IF c.consentType = "limited-access"
    THEN [restricted |-> TRUE, categories |-> c.allowedCategories]
    ELSE NoQuery

\* lines 188-202: query.category from the consent, then from req.query.category
CategoryQuery(c, category) ==
    LET q1 == IF c.consentType = "limited-access" /\ c.allowedCategories # {}
              THEN [restricted |-> TRUE, categories |-> c.allowedCategories]
              ELSE NoQuery
    IN  IF category # None
        THEN [restricted |-> TRUE, categories |-> {category}]
        ELSE q1

\* Record.find(query)
FindRecords(rs, patientId, query) ==
    {r \in rs : /\ r.patientId = patientId
                /\ r.isActive
                /\ (query.restricted => r.category \in query.categories)}

\* lines 179-210: the second lookup of the consent, the query built from it and
\* its records; a null consent is dereferenced at line 191 and the handler ends
\* in its catch
GetPatientRecordsLookup(h) ==
    /\ pc[h] = "gpr_lookup"
    /\ LET l == local[h]
           id == findOne({i \in DOMAIN consents :
                            /\ SamePair(consents[i], l.patientId, l.doctorId)
                            /\ consents[i].status = "granted"
                            /\ consents[i].validUntil > now
                            /\ consents[i].isActive})
       IN  IF id = 0
           THEN Finish(h, Response(l.op, l.patientId, l.doctorId, 500, "Failed to get patient records"))
           ELSE Continue(h, "gpr_record",
                         [l EXCEPT !.id = id, !.loaded = consents[id], !.consent = consents[id],
                                   !.found = FindRecords(records, l.patientId,
                                                         CategoryQuery(consents[id], l.category))])
    /\ UNCHANGED <<now, consents, records, chain, pristine, probe>>

\* Consent.methods.recordAccess up to its save(): the entry pushed
PushAccess(c, action, recordId, t) ==
    [c EXCEPT !.accessHistory = Append(@, [action |-> action, recordId |-> recordId, accessedAt |-> t])]

\* lines 212-239: logActivity resolved, the ACCESS block, and the call of
\* consent.recordAccess
GetPatientRecordsRecord(h, storeUp) ==
    /\ pc[h] = "gpr_record"
    /\ LET l == local[h]
           out == logActivity(l.doctorId, "RECORD_VIEW", "text",
                              LogOptions("record", None, "low", "success"), storeUp)
           c1 == PushAccess(l.consent, "view", None, now)
       IN  IF out.threw
           THEN /\ Finish(h, Response(l.op, l.patientId, l.doctorId, 500, "Failed to get patient records"))
                /\ UNCHANGED <<chain, pristine>>
           ELSE /\ Push(addBlock(chain, AccessData(l.doctorId, l.patientId, "VIEW", None), now))
                /\ IF ValidatorsPass(c1)
                   THEN Continue(h, "gpr_save", [l EXCEPT !.consent = c1, !.audit = Audit(out)])
                   ELSE Finish(h, Response(l.op, l.patientId, l.doctorId, 500, "Failed to get patient records"))
    /\ UNCHANGED <<now, consents, records, probe>>

\* line 239 resolved, and lines 241-258: the records and consentInfo returned
GetPatientRecordsSave(h) ==
    /\ pc[h] = "gpr_save"
    /\ consents' = Written(local[h])
    /\ LET l == local[h]
       IN  Finish(h, [Response(l.op, l.patientId, l.doctorId, 200, "ok") EXCEPT
                        !.category = l.category, !.records = l.found, !.audit = l.audit,
                        !.consentInfo = [type |-> l.consent.consentType,
                                         allowedCategories |-> l.consent.allowedCategories]])
    /\ UNCHANGED <<now, records, chain, pristine, probe>>

---------------------------------------------------------------------------
(* doctorController.getRecordContent and addRecordUpdate                   *)

\* lines 276-311: Record.findById, Consent.hasAccess resolved; the denial
GetRecordContent(h, doctorId, recordId, storeUp) ==
    /\ FreeSlot(h)
    /\ Room
    /\ LET hits == {r \in records : r.id = recordId}
           out == logActivity(doctorId, "UNAUTHORIZED_ACCESS", "text",
                              LogOptions("record", "Record", "high", "failure"), storeUp)
       IN  IF hits = {}
           THEN Finish(h, Response("getRecordContent", None, doctorId, 404, "Record not found"))
           ELSE LET record == CHOOSE r \in hits : TRUE
                IN  IF hasAccess(consents, now, doctorId, record.patientId, "view")
                    THEN Continue(h, "grc_record",
                                  [NoLocal EXCEPT !.op = "getRecordContent", !.doctorId = doctorId,
                                                  !.patientId = record.patientId, !.found = {record}])
                    ELSE IF out.threw
                    THEN Finish(h, Response("getRecordContent", record.patientId, doctorId, 500,
                                            "Failed to get record content"))
                    ELSE Finish(h, [Response("getRecordContent", record.patientId, doctorId, 403,
                                             "No valid consent for accessing this record")
                                      EXCEPT !.audit = Audit(out)])
    /\ UNCHANGED <<now, consents, records, chain, pristine, probe>>

\* lines 313-354: the content decrypted, logActivity resolved, the ACCESS
\* block and the response with the content
GetRecordContentRecord(h, storeUp) ==
    /\ pc[h] = "grc_record"
    /\ LET l == local[h]
           record == CHOOSE r \in l.found : TRUE
           out == logActivity(l.doctorId, "RECORD_VIEW", "text",
                              LogOptions("record", "Record", "medium", "success"), storeUp)
       IN  IF out.threw
           THEN /\ Finish(h, Response(l.op, l.patientId, l.doctorId, 500, "Failed to get record content"))
                /\ UNCHANGED <<chain, pristine>>
           ELSE /\ Push(addBlock(chain, AccessData(l.doctorId, l.patientId, "VIEW", record.id), now))
                /\ Finish(h, [Response(l.op, l.patientId, l.doctorId, 200, "ok")
                                EXCEPT !.records = l.found, !.audit = Audit(out)])
    /\ UNCHANGED <<now, consents, records, probe>>

\* record._id of the record built beside block k
NewRecordId(k) == <<"n1", "n2", "n3", "n4", "n5">>[k]

\* a variant of addRecordUpdate that records the upload before it checks the
\* doctor's access
AddRecordUpdateBlockFirst(h, doctorId, patientId, category) ==
    /\ FreeSlot(h)
    /\ Room
    /\ LET block == addBlock(chain, UploadData(NewRecordId(Len(chain)), patientId, doctorId, "f1"), now)
           record == [id |-> NewRecordId(Len(chain)), patientId |-> patientId,
                      category |-> category, isActive |-> TRUE]
           R(code, message) == Response("addRecordUpdate", patientId, doctorId, code, message)
       IN  IF category = None
           THEN /\ Finish(h, R(400, "Please provide title, content, and category"))
                /\ UNCHANGED <<chain, pristine>>
           ELSE /\ Push(block)
                /\ IF ~hasAccess(consents, now, doctorId, patientId, "update")
                   THEN Finish(h, R(403, "No permission to update patient records"))
                   ELSE Continue(h, "aru_save",
                                 [NoLocal EXCEPT !.op = "addRecordUpdate", !.doctorId = doctorId,
                                                 !.patientId = patientId, !.found = {record}])
    /\ UNCHANGED <<now, consents, records, probe>>

\* addRecordUpdate, lines 372-426: the required fields, Consent.hasAccess for
\* 'update' resolved, the new record, the UPLOAD block, and the call of
\* record.save()
AddRecordUpdate(h, doctorId, patientId, category) ==
    /\ FreeSlot(h)
    /\ Room
    /\ LET block == addBlock(chain, UploadData(NewRecordId(Len(chain)), patientId, doctorId, "f1"), now)
           record == [id |-> NewRecordId(Len(chain)), patientId |-> patientId,
                      category |-> category, isActive |-> TRUE]
           R(code, message) == Response("addRecordUpdate", patientId, doctorId, code, message)
       IN  IF category = None
           THEN /\ Finish(h, R(400, "Please provide title, content, and category"))
                /\ UNCHANGED <<chain, pristine>>
           ELSE IF ~hasAccess(consents, now, doctorId, patientId, "update")
           THEN /\ Finish(h, R(403, "No permission to update patient records"))
                /\ UNCHANGED <<chain, pristine>>
           ELSE /\ Push(block)
                /\ Continue(h, "aru_save",
                            [NoLocal EXCEPT !.op = "addRecordUpdate", !.doctorId = doctorId,
                                            !.patientId = patientId, !.found = {record}])
    /\ UNCHANGED <<now, consents, records, probe>>

\* line 426 resolved, and lines 428-461: logActivity and the response
AddRecordUpdateSave(h, storeUp) ==
    /\ pc[h] = "aru_save"
    /\ records' = records \cup local[h].found
    /\ LET l == local[h]
           out == logActivity(l.doctorId, "RECORD_UPDATE", "text",
                              LogOptions("record", "Record", "medium", "success"), storeUp)
       IN  IF out.threw
           THEN Finish(h, Response(l.op, l.patientId, l.doctorId, 500, "Failed to add record update"))
           ELSE Finish(h, [Response(l.op, l.patientId, l.doctorId, 201, "Record update added successfully")
                             EXCEPT !.records = l.found, !.audit = Audit(out)])
    /\ UNCHANGED <<now, consents, chain, pristine, probe>>

---------------------------------------------------------------------------
(* The clock, and the specification of the running server.                 *)

\* a variant of the clock with a sweep that marks the grants that have run out
TickSweeping ==
    /\ now < MaxTime
    /\ resp = NoResponse
    /\ now' = now + 1
    /\ consents' = [i \in DOMAIN consents |->
                      IF consents[i].status = "granted" /\ consents[i].validUntil <= now + 1
                      THEN [consents[i] EXCEPT !.status = "expired"]
                      ELSE consents[i]]
    /\ UNCHANGED <<records, chain, pristine, pc, local, resp, probe>>

\* time passes
Tick ==
    /\ now < MaxTime
    /\ resp = NoResponse
    /\ now' = now + 1
    /\ UNCHANGED <<consents, records, chain, pristine, pc, local, resp, probe>>

\* the response written by the last step has left the handler
Sent ==
    /\ resp # NoResponse
    /\ resp' = NoResponse
    /\ UNCHANGED <<now, consents, records, chain, pristine, pc, local, probe>>

\* the server after start-up: the ledger singleton constructed (blockchain.js
\* line 225), no consent stored, no handler running
Init ==
    /\ now = 0
    /\ consents = <<>>
    /\ records = SeedRecords
    /\ chain = <<createGenesisBlock(0)>>
    /\ pristine = <<chain[1].data>>
    /\ pc = [h \in Procs |-> "idle"]
    /\ local = [h \in Procs |-> NoLocal]
    /\ resp = NoResponse
    /\ probe = NoProbe

Next ==
    \/ Tick
    \/ Sent
    \/ \E h \in Procs, r \in RequestChoices :
          RequestAccess(h, r.doctorId, r.patientId, r.body, r.validUntil)
    \/ \E h \in Procs, storeUp \in BOOLEAN : RequestAccessSave(h, storeUp)
    \/ \E h \in Procs, r \in GrantChoices :
          GrantConsent(h, r.patientId, r.doctorId, r.body, r.validUntil)
    \/ \E h \in Procs, storeUp \in BOOLEAN : GrantSave(h, storeUp)
    \/ \E h \in Procs, p \in Patients, d \in Doctors \cup {None} : RevokeConsent(h, p, d)
    \/ \E h \in Procs : RevokeSave(h)
    \/ \E h \in Procs, storeUp \in BOOLEAN : RevokeRecord(h, storeUp)
    \/ \E h \in Procs, d \in Doctors, p \in Patients, c \in CategoryChoices, storeUp \in BOOLEAN :
          GetPatientRecords(h, d, p, c, storeUp)
    \/ \E h \in Procs : GetPatientRecordsLookup(h)
    \/ \E h \in Procs, storeUp \in BOOLEAN : GetPatientRecordsRecord(h, storeUp)
    \/ \E h \in Procs : GetPatientRecordsSave(h)

Spec == Init /\ [][Next]_vars

---------------------------------------------------------------------------
(* The read path on its own: Consent.hasAccess and the virtual isValid      *)
(* applied to any document the schema admits, at any time of day 0..        *)
(* ReadMaxTime (the clock counts days here).                                *)

GrantDays == 30

PermissionChoices ==
    { DefaultPermissions,
      [DefaultPermissions EXCEPT !.canUpdate = TRUE, !.canShare = TRUE],
      [NoPermissions EXCEPT !.canDownload = TRUE] }

\* the stored documents of the pair (p1, d1) that pass the schema: any status,
\* either isActive, validUntil after validFrom, revokedAt set when revoked
StoredChoices ==
    { [NewConsent("p1", "d1", st, "limited-access", pm, {}, vf + len, vf) EXCEPT
          !.isActive = a, !.revokedAt = IF st = "revoked" THEN vf ELSE NoDate] :
        st \in Statuses, pm \in PermissionChoices, vf \in {0, 1}, len \in {1, GrantDays}, a \in BOOLEAN }

InitRead ==
    /\ now = 0
    /\ consents \in {<<>>} \cup {<<c>> : c \in StoredChoices}
    /\ records = SeedRecords
    /\ chain = <<createGenesisBlock(0)>>
    /\ pristine = <<chain[1].data>>
    /\ pc = [h \in Procs |-> "idle"]
    /\ local = [h \in Procs |-> NoLocal]
    /\ resp = NoResponse
    /\ probe = NoProbe

\* a day passes; the result of the last read is no longer current
TickRead ==
    /\ now < ReadMaxTime
    /\ now' = now + 1
    /\ probe' = NoProbe
    /\ UNCHANGED <<consents, records, chain, pristine, pc, local, resp>>

\* a call of Consent.hasAccess(doctorId, patientId, action), as the access
\* gates make it
HasAccessCall(doctorId, patientId, action) ==
    /\ probe' = [called |-> TRUE, doctorId |-> doctorId, patientId |-> patientId,
                 action |-> action,
                 result |-> hasAccess(consents, now, doctorId, patientId, action)]
    /\ UNCHANGED <<now, consents, records, chain, pristine, pc, local, resp>>

\* a read of document i's virtual isValid (toJSON serialises it)
IsValidRead(i) ==
    /\ i \in DOMAIN consents
    /\ probe' = [called |-> TRUE, doctorId |-> consents[i].doctorId,
                 patientId |-> consents[i].patientId, action |-> "isValid",
                 result |-> isValid(consents[i], now)]
    /\ UNCHANGED <<now, consents, records, chain, pristine, pc, local, resp>>

NextRead ==
    \/ TickRead
    \/ \E d \in {"d1", "d2"}, p \in Patients, a \in AccessActions \cup {"delete"} :
          HasAccessCall(d, p, a)
    \/ \E i \in {1} : IsValidRead(i)

SpecRead == InitRead /\ [][NextRead]_vars

---------------------------------------------------------------------------
(* revokeConsent on its own, started on a collection that holds any one     *)
(* document the schema admits for the pair, or none.                        *)

InitStored ==
    /\ now = 0
    /\ consents \in {<<>>} \cup {<<c>> : c \in StoredChoices}
    /\ records = SeedRecords
    /\ chain = <<createGenesisBlock(0)>>
    /\ pristine = <<chain[1].data>>
    /\ pc = [h \in Procs |-> "idle"]
    /\ local = [h \in Procs |-> NoLocal]
    /\ resp = NoResponse
    /\ probe = NoProbe

NextRevoke ==
    \/ Tick
    \/ Sent
    \/ \E h \in Procs, p \in Patients, d \in Doctors \cup {None} : RevokeConsent(h, p, d)
    \/ \E h \in Procs : RevokeSave(h)
    \/ \E h \in Procs, storeUp \in BOOLEAN : RevokeRecord(h, storeUp)

SpecStored == InitStored /\ [][NextRevoke]_vars

---------------------------------------------------------------------------
(* The server after a restart: the collection of consents is kept by the    *)
(* database, the ledger lives in memory and starts again from its genesis   *)
(* block.                                                                   *)

\* the pair's document as earlier runs left it: revoked, or granted until
\* time 1
RestartChoices ==
    { [NewConsent("p1", "d1", "revoked", "limited-access", DefaultPermissions, {}, MaxTime + 1, 0)
          EXCEPT !.grantedAt = 0, !.revokedAt = 0],
      [NewConsent("p1", "d1", "granted", "limited-access", DefaultPermissions, {}, 1, 0)
          EXCEPT !.grantedAt = 0] }

InitRestart ==
    /\ now = 0
    /\ consents \in {<<c>> : c \in RestartChoices}
    /\ records = SeedRecords
    /\ chain = <<createGenesisBlock(0)>>
    /\ pristine = <<chain[1].data>>
    /\ pc = [h \in Procs |-> "idle"]
    /\ local = [h \in Procs |-> NoLocal]
    /\ resp = NoResponse
    /\ probe = NoProbe

SpecRestart == InitRestart /\ [][Next]_vars

---------------------------------------------------------------------------
(* The writers of validUntil: requestAccess, grantConsent, and calls of     *)
(* Consent.methods.extend and of validate() on new documents.               *)

ExtendDays == {0 - 1, 1}

\* a new document as the test script builds it, validUntil thirty days after its
\* creation, and its ill-formed variants
ValidateVariants == {"script", "end-at-start", "no-end", "status", "type", "no-hash"}

ValidateChoice(variant) ==
    LET d == [NewConsent("p1", "d1", "pending", "limited-access", DefaultPermissions, {"general"}, now + GrantDays, now)
                 EXCEPT !.blockchainHash = [lead |-> <<1>>, body |-> <<>>]]
    IN  CASE variant = "script" -> d
          [] variant = "end-at-start" -> [d EXCEPT !.validUntil = now]
          [] variant = "no-end" -> [d EXCEPT !.validUntil = NoDate]
          [] variant = "status" -> [d EXCEPT !.status = "active"]
          [] variant = "type" -> [d EXCEPT !.consentType = "read-only"]
          [] OTHER -> [d EXCEPT !.blockchainHash = ZeroHash]

\* a call of extend on the stored document i: findOne, extend, save
ExtendCall(i, days) ==
    /\ resp = NoResponse
    /\ \A h \in Procs : pc[h] = "idle"
    /\ i \in DOMAIN consents
    /\ consents[i].validUntil + days <= MaxTime + 1
    /\ LET c1 == extend(consents[i], days)
           R(message) == [Response("extend", c1.patientId, c1.doctorId, 0, message) EXCEPT !.consent = c1]
       IN  IF ValidatorsPass(c1)
           THEN /\ consents' = [consents EXCEPT ![i] = WriteModified(consents[i], consents[i], c1)]
                /\ resp' = R("resolved")
           ELSE /\ UNCHANGED consents
                /\ resp' = R("rejected")
    /\ UNCHANGED <<now, records, chain, pristine, pc, local, probe>>

\* a call of validate() on a new document, as the test script makes it
ValidateCall(variant) ==
    /\ resp = NoResponse
    /\ \A h \in Procs : pc[h] = "idle"
    /\ LET c == ValidateChoice(variant)
       IN  resp' = [Response("validate", c.patientId, c.doctorId, 0,
                         IF validate(c) THEN "resolved" ELSE "rejected") EXCEPT !.consent = c]
    /\ UNCHANGED <<now, consents, records, chain, pristine, pc, local, probe>>

NextValidity ==
    \/ Tick
    \/ Sent
    \/ \E h \in Procs, r \in RequestChoices :
          RequestAccess(h, r.doctorId, r.patientId, r.body, r.validUntil)
    \/ \E h \in Procs, storeUp \in BOOLEAN : RequestAccessSave(h, storeUp)
    \/ \E h \in Procs, r \in GrantChoices :
          GrantConsent(h, r.patientId, r.doctorId, r.body, r.validUntil)
    \/ \E h \in Procs, storeUp \in BOOLEAN : GrantSave(h, storeUp)
    \/ \E i \in {1}, days \in ExtendDays : ExtendCall(i, days)
    \/ \E variant \in ValidateVariants : ValidateCall(variant)

SpecValidity == Init /\ [][NextValidity]_vars

---------------------------------------------------------------------------
(* Calls of extend with a positive number of days on a stored document.     *)

NextExtend ==
    \/ Tick
    \/ Sent
    \/ \E days \in {d \in ExtendDays : d > 0} : ExtendCall(1, days)

SpecExtend == InitStored /\ [][NextExtend]_vars

---------------------------------------------------------------------------
(* Calls of Consent.methods.recordAccess on a stored document.             *)

\* the enum of accessHistory.action; an entry without action passes
AccessEntryValid(e) == e.action \in AccessActions \cup {None}

\* a call of recordAccess(action, recordId) on the stored document i: the
\* push, and save() with its validation
ConsentRecordAccessCall(i, action, recordId) ==
    /\ resp = NoResponse
    /\ i \in DOMAIN consents
    /\ Len(consents[i].accessHistory) < MaxHistory
    /\ LET c1 == PushAccess(consents[i], action, recordId, now)
           R(message) == [Response("recordAccess", c1.patientId, c1.doctorId, 0, message) EXCEPT !.consent = c1]
       IN  IF ValidatorsPass(c1) /\ AccessEntryValid(c1.accessHistory[Len(c1.accessHistory)])
           THEN /\ consents' = [consents EXCEPT ![i] = WriteModified(consents[i], consents[i], c1)]
                /\ resp' = R("resolved")
           ELSE /\ UNCHANGED consents
                /\ resp' = R("rejected")
    /\ UNCHANGED <<now, records, chain, pristine, pc, local, probe>>

NextAccess ==
    \/ Tick
    \/ Sent
    \/ \E action \in AccessActions \cup {"delete"}, recordId \in {None, "r1"} :
          ConsentRecordAccessCall(1, action, recordId)

SpecAccess == InitStored /\ [][NextAccess]_vars

---------------------------------------------------------------------------
(* Every operation on a consent, on a granted record that has a history.   *)

InitHistory ==
    /\ now = 0
    /\ consents = <<[NewConsent("p1", "d1", "granted", "limited-access", DefaultPermissions, {}, MaxTime + 1, 0)
                       EXCEPT !.grantedAt = 0,
                              !.accessHistory = <<[action |-> "view", recordId |-> None, accessedAt |-> 0]>>]>>
    /\ records = SeedRecords
    /\ chain = <<createGenesisBlock(0)>>
    /\ pristine = <<chain[1].data>>
    /\ pc = [h \in Procs |-> "idle"]
    /\ local = [h \in Procs |-> NoLocal]
    /\ resp = NoResponse
    /\ probe = NoProbe

\* a call of recordAccess made while no handler is in flight
RecordAccessAlone(i, action, recordId) ==
    /\ \A h \in Procs : pc[h] = "idle"
    /\ ConsentRecordAccessCall(i, action, recordId)

NextHistory ==
    \/ Tick
    \/ Sent
    \/ \E h \in Procs : RequestAccess(h, "d1", "p1", NoBody, MaxTime + 1)
    \/ \E h \in Procs, storeUp \in {TRUE} : RequestAccessSave(h, storeUp)
    \/ \E h \in Procs : GrantConsent(h, "p1", "d1", NoBody, MaxTime + 1)
    \/ \E h \in Procs, storeUp \in {TRUE} : GrantSave(h, storeUp)
    \/ \E h \in Procs : RevokeConsent(h, "p1", "d1")
    \/ \E h \in Procs : RevokeSave(h)
    \/ \E h \in Procs, storeUp \in {TRUE} : RevokeRecord(h, storeUp)
    \/ \E h \in Procs, storeUp \in {TRUE} : GetPatientRecords(h, "d1", "p1", None, storeUp)
    \/ \E h \in Procs : GetPatientRecordsLookup(h)
    \/ \E h \in Procs, storeUp \in {TRUE} : GetPatientRecordsRecord(h, storeUp)
    \/ \E h \in Procs : GetPatientRecordsSave(h)
    \/ \E days \in ExtendDays : ExtendCall(1, days)
    \/ \E action \in {"download"} : RecordAccessAlone(1, action, "r1")

SpecHistory == InitHistory /\ [][NextHistory]_vars

---------------------------------------------------------------------------
(* The doctor's reads and updates, and the gate of the patient routes, on  *)
(* a stored consent.                                                        *)

\* User.role of the users that call the gate
RoleOf(userId) ==
    IF userId \in {"p1", "p2"} THEN "patient"
    ELSE IF userId = "d1" THEN "doctor"
    ELSE "hospital"

\* the middleware validatePatientAccess for req.user = (role, userId); next()
\* is answered as code 200
ValidatePatientAccess(role, userId, patientId, storeUp) ==
    /\ resp = NoResponse
    /\ \A h \in Procs : pc[h] = "idle"
    /\ LET out == logActivity(userId, "UNAUTHORIZED_ACCESS", "text",
                              LogOptions("user", "User", "high", "failure"), storeUp)
           R(code, message) == Response("validatePatientAccess", patientId, userId, code, message)
       IN  resp' = IF role = "patient" /\ userId = patientId
                   THEN R(200, "next")
                   ELSE IF role = "doctor" /\ ~hasAccess(consents, now, userId, patientId, "view")
                   THEN IF out.threw
                        THEN R(500, "Access validation failed.")
                        ELSE [R(403, "No consent granted for accessing this patient data.")
                                EXCEPT !.audit = Audit(out)]
                   ELSE IF role \in {"hospital", "admin"}
                   THEN R(200, "next")
                   ELSE R(403, "Access denied.")
    /\ UNCHANGED <<now, consents, records, chain, pristine, pc, local, probe>>

\* the stored consents of the pair (p1, d1): granted ones of each type, with
\* and without categories and the view and update permissions, one that runs
\* out at time 1, and a revoked one
DoctorChoices ==
    LET g(type, pm, cats, until) ==
            [NewConsent("p1", "d1", "granted", type, pm, cats, until, 0) EXCEPT !.grantedAt = 0]
        viewUpdate == [DefaultPermissions EXCEPT !.canUpdate = TRUE]
    IN  { g("limited-access", viewUpdate, {"cardiology"}, MaxTime + 1),
          g("limited-access", DefaultPermissions, {}, MaxTime + 1),
          g("full-access", DefaultPermissions, {}, 1),
          g("limited-access", NoPermissions, {"cardiology"}, MaxTime + 1),
          [g("full-access", viewUpdate, {}, MaxTime + 1) EXCEPT !.status = "revoked", !.revokedAt = 0] }

InitDoctor ==
    /\ now = 0
    /\ consents \in {<<>>} \cup {<<c>> : c \in DoctorChoices}
    /\ records = SeedRecords
    /\ chain = <<createGenesisBlock(0)>>
    /\ pristine = <<chain[1].data>>
    /\ pc = [h \in Procs |-> "idle"]
    /\ local = [h \in Procs |-> NoLocal]
    /\ resp = NoResponse
    /\ probe = NoProbe

NextDoctor ==
    \/ Tick
    \/ Sent
    \/ \E h \in Procs, category \in CategoryChoices, storeUp \in BOOLEAN :
          GetPatientRecords(h, "d1", "p1", category, storeUp)
    \/ \E h \in Procs : GetPatientRecordsLookup(h)
    \/ \E h \in Procs, storeUp \in BOOLEAN : GetPatientRecordsRecord(h, storeUp)
    \/ \E h \in Procs : GetPatientRecordsSave(h)
    \/ \E h \in Procs, recordId \in {"r1", "r2", "r9"}, storeUp \in BOOLEAN :
          GetRecordContent(h, "d1", recordId, storeUp)
    \/ \E h \in Procs, storeUp \in BOOLEAN : GetRecordContentRecord(h, storeUp)
    \/ \E h \in Procs, category \in {None, "radiology"} : AddRecordUpdate(h, "d1", "p1", category)
    \/ \E h \in Procs, storeUp \in BOOLEAN : AddRecordUpdateSave(h, storeUp)
    \/ \E userId \in {"p1", "p2", "d1", "hosp1"}, storeUp \in BOOLEAN :
          ValidatePatientAccess(RoleOf(userId), userId, "p1", storeUp)

SpecDoctor == InitDoctor /\ [][NextDoctor]_vars

---------------------------------------------------------------------------
(* The operations on the pair (p1, d1) in a collection that holds the       *)
(* documents of other pairs.                                                *)

\* the documents of two other pairs: (p1, d2), granted until time 1, and
\* (p2, d1), pending; the pair (p1, d1) has no document yet
PairsChoices ==
    LET other1 == [NewConsent("p1", "d2", "granted", "full-access", DefaultPermissions, {}, 1, 0)
                     EXCEPT !.grantedAt = 0]
        other2 == NewConsent("p2", "d1", "pending", "limited-access", DefaultPermissions, {}, MaxTime + 1, 0)
    IN  { <<other1, other2>>, <<other2, other1>> }

InitPairs ==
    /\ now = 0
    /\ consents \in PairsChoices
    /\ records = SeedRecords
    /\ chain = <<createGenesisBlock(0)>>
    /\ pristine = <<chain[1].data>>
    /\ pc = [h \in Procs |-> "idle"]
    /\ local = [h \in Procs |-> NoLocal]
    /\ resp = NoResponse
    /\ probe = NoProbe

\* calls of the methods extend and recordAccess on the document of a pair
ExtendPair(patientId, doctorId, days) ==
    /\ FindPair(patientId, doctorId) > 0
    /\ ExtendCall(FindPair(patientId, doctorId), days)

RecordAccessPair(patientId, doctorId, action, recordId) ==
    /\ FindPair(patientId, doctorId) > 0
    /\ RecordAccessAlone(FindPair(patientId, doctorId), action, recordId)

NextPairs ==
    \/ Tick
    \/ Sent
    \/ \E h \in Procs : RequestAccess(h, "d1", "p1", NoBody, MaxTime + 1)
    \/ \E h \in Procs, storeUp \in {TRUE} : RequestAccessSave(h, storeUp)
    \/ \E h \in Procs : GrantConsent(h, "p1", "d1", NoBody, MaxTime + 1)
    \/ \E h \in Procs, storeUp \in {TRUE} : GrantSave(h, storeUp)
    \/ \E h \in Procs : RevokeConsent(h, "p1", "d1")
    \/ \E h \in Procs : RevokeSave(h)
    \/ \E h \in Procs, storeUp \in {TRUE} : RevokeRecord(h, storeUp)
    \/ \E days \in {0 - 1} : ExtendPair("p1", "d1", days)
    \/ \E action \in {"download"} : RecordAccessPair("p1", "d1", action, "r1")

SpecPairs == InitPairs /\ [][NextPairs]_vars

---------------------------------------------------------------------------
(* Grants of a patient who keeps the parameters and the outcome of the     *)
(* last grant that was written.                                             *)

\* the fields of a consent that a grant decides
GrantView(c) ==
    [status |-> c.status, consentType |-> c.consentType, permissions |-> c.permissions,
     allowedCategories |-> c.allowedCategories, validUntil |-> c.validUntil,
     isActive |-> c.isActive]

\* the handler's save is the first write of the record since the handler
\* loaded it
InARow(l) == l.id = 0 \/ consents[l.id] = l.loaded

\* the handler's grant has the parameters of the last one written, which
\* was made in a row, and found the record as that one left it
SameGrantAgain(l) ==
    /\ probe.called
    /\ probe.result.inARow
    /\ l.id > 0
    /\ probe.patientId = l.patientId
    /\ probe.doctorId = l.doctorId
    /\ probe.result.body = l.body
    /\ probe.result.validUntil = l.validUntil
    /\ probe.result.record = l.loaded
    /\ probe.result.record = consents[l.id]

\* GrantSave, with the parameters and the record written kept in `probe`
GrantSaveNoted(h, storeUp) ==
    /\ GrantSaveStep(h, storeUp)
    /\ LET l == local[h]
           id == IF l.id > 0 THEN l.id ELSE Len(consents) + 1
       IN  IF CanWrite(l)
           THEN probe' = [called |-> TRUE, doctorId |-> l.doctorId, patientId |-> l.patientId,
                          action |-> "grantConsent",
                          result |-> [body |-> l.body, validUntil |-> l.validUntil,
                                      record |-> consents'[id], inARow |-> InARow(l),
                                      again |-> SameGrantAgain(l)]]
           ELSE UNCHANGED probe

NextRegrant ==
    \/ Tick
    \/ Sent
    \/ \E h \in Procs, r \in GrantChoices :
          GrantConsent(h, r.patientId, r.doctorId, r.body, r.validUntil)
    \/ \E h \in Procs, storeUp \in BOOLEAN : GrantSaveNoted(h, storeUp)

\* the stored documents of the pair that differ in status and isActive
RegrantChoices ==
    {c \in StoredChoices : c.permissions = DefaultPermissions /\ c.validFrom = 0 /\ c.validUntil = 1}

InitRegrant ==
    /\ now = 0
    /\ consents \in {<<>>} \cup {<<c>> : c \in RegrantChoices}
    /\ records = SeedRecords
    /\ chain = <<createGenesisBlock(0)>>
    /\ pristine = <<chain[1].data>>
    /\ pc = [h \in Procs |-> "idle"]
    /\ local = [h \in Procs |-> NoLocal]
    /\ resp = NoResponse
    /\ probe = NoProbe

SpecRegrant == InitRegrant /\ [][NextRegrant]_vars

---------------------------------------------------------------------------
(* The ledger on its own, with an intruder who edits blocks in memory.      *)

LedgerActions == {"REQUESTED", "GRANTED", "REVOKED"}

\* a call of recordConsent, by any caller
RecordConsentCall(patientId, doctorId, action, validUntil) ==
    /\ Len(chain) < MaxChain
    /\ Push(addBlock(chain, ConsentData(patientId, doctorId, action, validUntil), now))
    /\ UNCHANGED <<now, consents, records, pc, local, resp, probe>>

\* a call of recordAccess, by any caller
RecordAccessCall(actorId, targetId) ==
    /\ Len(chain) < MaxChain
    /\ Push(addBlock(chain, AccessData(actorId, targetId, "VIEW", None), now))
    /\ UNCHANGED <<now, consents, records, pc, local, resp, probe>>

\* the action of block i, so far as appended, is overwritten in place; nothing
\* is recomputed
Tamper(i, action) ==
    /\ i \in DOMAIN chain
    /\ chain[i].data = pristine[i]
    /\ action # chain[i].data.action
    /\ chain' = [chain EXCEPT ![i].data.action = action]
    /\ UNCHANGED <<now, consents, records, pristine, pc, local, resp, probe>>

\* block i, so far as appended, is replaced by a block mined anew over an
\* edited payload
Remine(i, action) ==
    /\ i \in 2..Len(chain)
    /\ chain[i].data = pristine[i]
    /\ action # chain[i].data.action
    /\ chain' = [chain EXCEPT ![i] =
                   mineBlock(NewBlock(chain[i].index, chain[i].timestamp,
                                      [chain[i].data EXCEPT !.action = action],
                                      chain[i].previousHash))]
    /\ UNCHANGED <<now, consents, records, pristine, pc, local, resp, probe>>

NextTamper ==
    \/ \E d \in Doctors, a \in LedgerActions : RecordConsentCall("p1", d, a, IF a = "REVOKED" THEN NoDate ELSE MaxTime + 1)
    \/ \E d \in Doctors : RecordAccessCall(d, "p1")
    \/ \E i \in 1..MaxChain, a \in LedgerActions : Tamper(i, a)
    \/ \E i \in 1..MaxChain, a \in LedgerActions : Remine(i, a)

SpecTamper == Init /\ [][NextTamper]_vars

---------------------------------------------------------------------------
(* The ledger on its own, as its callers use it: the typed recorders and    *)
(* the queries.                                                             *)

\* Blockchain.getStats()
getStats(c) ==
    LET typed == {i \in DOMAIN c : c[i].data.isObject}
    IN  [totalBlocks |-> Len(c),
         isValid |-> isChainValid(c),
         types |-> [t \in {c[i].data.type : i \in typed} |->
                       Cardinality({i \in typed : c[i].data.type = t})]]

BlockTypes == {"CONSENT", "UPLOAD", "ACCESS", "VERIFICATION"}

\* the users a trail is asked for: the patient, the doctor, the admin
TrailUsers == {"p1", "d1", "a1"}

\* a call of recordUpload, by any caller
RecordUploadCall(recordId, patientId, uploaderId) ==
    /\ Len(chain) < MaxChain
    /\ Push(addBlock(chain, UploadData(recordId, patientId, uploaderId, "f1"), now))
    /\ UNCHANGED <<now, consents, records, pc, local, resp, probe>>

\* a call of recordVerification, by any caller
RecordVerificationCall(userId, verifierId, action) ==
    /\ Len(chain) < MaxChain
    /\ Push(addBlock(chain, VerificationData(userId, verifierId, action), now))
    /\ UNCHANGED <<now, consents, records, pc, local, resp, probe>>

\* the answer of the query `op`, asked with the argument `arg`
Answer(op, arg, result) ==
    [called |-> TRUE, doctorId |-> arg, patientId |-> None, action |-> op, result |-> result]

GetAuditTrailCall(userId) ==
    /\ probe' = Answer("getAuditTrail", userId, getAuditTrail(chain, userId))
    /\ UNCHANGED <<now, consents, records, chain, pristine, pc, local, resp>>

GetBlocksByTypeCall(type) ==
    /\ probe' = Answer("getBlocksByType", type, getBlocksByType(chain, type))
    /\ UNCHANGED <<now, consents, records, chain, pristine, pc, local, resp>>

IsChainValidCall ==
    /\ probe' = Answer("isChainValid", None, isChainValid(chain))
    /\ UNCHANGED <<now, consents, records, chain, pristine, pc, local, resp>>

GetStatsCall ==
    /\ probe' = Answer("getStats", None, getStats(chain))
    /\ UNCHANGED <<now, consents, records, chain, pristine, pc, local, resp>>

NextLedger ==
    \/ Tick
    \/ \E a \in LedgerActions : RecordConsentCall("p1", "d1", a, IF a = "REVOKED" THEN NoDate ELSE MaxTime + 1)
    \/ RecordAccessCall("d1", "p1")
    \/ RecordUploadCall("r1", "p1", "d1")
    \/ RecordVerificationCall("d1", "a1", "APPROVED")
    \/ \E u \in TrailUsers : GetAuditTrailCall(u)
    \/ \E t \in BlockTypes : GetBlocksByTypeCall(t)
    \/ IsChainValidCall
    \/ GetStatsCall

SpecLedger == Init /\ [][NextLedger]_vars

---------------------------------------------------------------------------
(* AuditLog.logActivity on its own, called with any arguments while the     *)
(* log store is up or down.                                                 *)

OptionChoices ==
    { NoOptions,
      [NoOptions EXCEPT !.isNull = TRUE],
      [NoOptions EXCEPT !.resourceType = "consent", !.targetModel = "Consent", !.severity = "low", !.status = "success"],
      [NoOptions EXCEPT !.resourceType = "ledger"],
      [NoOptions EXCEPT !.severity = "urgent"] }

LogActivityCall(actorId, action, description, options, storeUp) ==
    /\ probe' = [called |-> TRUE, doctorId |-> actorId, patientId |-> None, action |-> "logActivity",
                 result |-> [action |-> action, description |-> description, options |-> options,
                             storeUp |-> storeUp,
                             outcome |-> logActivity(actorId, action, description, options, storeUp)]]
    /\ UNCHANGED <<now, consents, records, chain, pristine, pc, local, resp>>

\* patientController.updateProfile, lines 238-286: User.findByIdAndUpdate
\* resolved (found: a user was updated), logActivity, and the response
UpdateProfile(patientId, found, storeUp) ==
    /\ resp = NoResponse
    /\ LET out == logActivity(patientId, "PROFILE_UPDATE", "text",
                              LogOptions("user", "User", "low", "success"), storeUp)
           R(code, message) == Response("updateProfile", patientId, None, code, message)
       IN  resp' = IF ~found THEN R(404, "Patient not found")
                   ELSE IF out.threw THEN R(500, "Failed to update profile")
                   ELSE [R(200, "Profile updated successfully") EXCEPT !.audit = Audit(out)]
    /\ UNCHANGED <<now, consents, records, chain, pristine, pc, local, probe>>

\* the middleware logAccess(action) for req.user = userId (None: no user);
\* next() is answered as code 200
LogAccess(userId, action, storeUp) ==
    /\ resp = NoResponse
    /\ LET out == logActivity(userId, action, "text",
                              LogOptions("system", None, "low", "success"), storeUp)
           R == Response("logAccess", userId, None, 200, "next")
       IN  resp' = IF userId = None THEN R
                   ELSE IF out.threw THEN R
                   ELSE [R EXCEPT !.audit = Audit(out)]
    /\ UNCHANGED <<now, consents, records, chain, pristine, pc, local, probe>>

NextLog ==
    \/ \E actorId \in {None, "d1"},
          action \in {None, "CONSENT_GRANT", "RECORD_VIEW", "CONSENT_DENY", "PROFILE_UPDATE"},
          description \in {None, "text", "long"}, options \in OptionChoices, storeUp \in BOOLEAN :
           LogActivityCall(actorId, action, description, options, storeUp)
    \/ \E found \in BOOLEAN, storeUp \in BOOLEAN : UpdateProfile("p1", found, storeUp)
    \/ \E userId \in {None, "p1"}, action \in {"DASHBOARD_VIEW", "USER_UPDATE", "LOGIN"}, storeUp \in BOOLEAN :
           LogAccess(userId, action, storeUp)
    \/ Sent

SpecLog == Init /\ [][NextLog]_vars

---------------------------------------------------------------------------
(* The properties of the specification, by the number of their claim.      *)

UniquePairs ==
    \A i, j \in DOMAIN consents :
        SamePair(consents[i], consents[j].patientId, consents[j].doctorId) => i = j

\* C1: there is never more than one consent record for a (patient, doctor)
\* pair, and a request or a grant saved for a pair that already has a record
\* updates that record: no record is added, removed or moved to another pair.
C1_OneRecordPerPair ==
    [][/\ UniquePairs /\ UniquePairs'
       /\ \A i \in DOMAIN consents :
            /\ i \in DOMAIN consents'
            /\ SamePair(consents'[i], consents[i].patientId, consents[i].doctorId)
       /\ \A h \in Procs :
            (/\ pc[h] \in {"ra_save", "gc_save"}
             /\ pc'[h] = "idle"
             /\ \E i \in DOMAIN consents : SamePair(consents[i], local[h].patientId, local[h].doctorId))
            => Len(consents') = Len(consents)]_vars

\* a grant has just been saved into the record that a request created
C1_Witness ==
    /\ Len(consents) = 1
    /\ consents[1].status = "granted"
    /\ Len(chain) = 3
    /\ chain[2].data.action = "REQUESTED"
    /\ chain[3].data.action = "GRANTED"
    /\ resp.op = "grantConsent"
    /\ resp.code = 200

\* the pair's record is pending, or granted and valid at time t
PendingOrValid(patientId, doctorId, t) ==
    \E i \in DOMAIN consents :
        /\ consents[i].patientId = patientId
        /\ consents[i].doctorId = doctorId
        /\ \/ consents[i].status = "pending"
           \/ /\ consents[i].status = "granted"
              /\ consents[i].validFrom <= t
              /\ t < consents[i].validUntil
              /\ consents[i].isActive

\* a step in which requestAccess is called for a pair whose record is pending
\* or granted and valid: the call is answered at once, or goes on to its save
GuardedRequestStep ==
    \/ \E h \in Procs :
          /\ pc[h] = "idle"
          /\ pc'[h] = "ra_save"
          /\ PendingOrValid(local'[h].patientId, local'[h].doctorId, now)
    \/ /\ pc' = pc
       /\ resp = NoResponse
       /\ resp'.op = "requestAccess"
       /\ PendingOrValid(resp'.patientId, resp'.doctorId, now)

DuplicateMessages == {"Access request already pending", "Access already granted and valid"}

\* C2 as stated: a requestAccess call for a pair whose record is pending, or
\* granted and currently valid, is rejected with the duplicate-request error,
\* and the consent records and the ledger are unchanged.
C2_DuplicateRejected ==
    [][GuardedRequestStep =>
         /\ resp'.code = 400
         /\ resp'.message \in DuplicateMessages
         /\ consents' = consents
         /\ chain' = chain]_vars

\* C2 amended: such a call is rejected with status 400 and changes neither the
\* consent records nor the ledger; the error is the duplicate-request error
\* unless the call lacks patientId or validUntil, which is rejected first with
\* the required-fields error.
C2_DuplicateOrMissingRejected ==
    [][GuardedRequestStep =>
         /\ resp'.code = 400
         /\ resp'.message \in DuplicateMessages \cup {"Please provide patientId and validUntil date"}
         /\ consents' = consents
         /\ chain' = chain]_vars

\* a request has just been rejected for a pair whose grant is valid
C2_Witness ==
    /\ resp.op = "requestAccess"
    /\ resp.code = 400
    /\ resp.message = "Access already granted and valid"
    /\ PendingOrValid(resp.patientId, resp.doctorId, now)

\* C3: two requestAccess calls for the same pair are never both past the
\* duplicate-request guard.
C3_GuardSerialized ==
    \A h1, h2 \in Procs :
        (/\ h1 # h2
         /\ pc[h1] = "ra_save"
         /\ pc[h2] = "ra_save")
        => \/ local[h1].patientId # local[h2].patientId
           \/ local[h1].doctorId # local[h2].doctorId

\* the permission flag that an action name selects; no flag for any other name
FlagOf(c, action) ==
    \/ action = "view" /\ c.permissions.canView
    \/ action = "download" /\ c.permissions.canDownload
    \/ action = "update" /\ c.permissions.canUpdate
    \/ action = "share" /\ c.permissions.canShare

\* C4: hasAccess(doctor, patient, action) is true exactly when the pair has a
\* record with status granted, validFrom <= now < validUntil, isActive true and
\* the flag of the action true; with no such record, a false flag or an
\* unrecognised action it is false.
C4_HasAccessFailClosed ==
    (probe.called /\ probe.action # "isValid") =>
        probe.result =
            \E i \in DOMAIN consents :
                /\ consents[i].patientId = probe.patientId
                /\ consents[i].doctorId = probe.doctorId
                /\ consents[i].status = "granted"
                /\ consents[i].validFrom <= now
                /\ now < consents[i].validUntil
                /\ consents[i].isActive
                /\ FlagOf(consents[i], probe.action)

\* download has just been refused on a grant that is valid and active but
\* has canDownload false
C4_Witness ==
    /\ probe.called
    /\ probe.action = "download"
    /\ ~probe.result
    /\ \E i \in DOMAIN consents :
          /\ consents[i].doctorId = probe.doctorId
          /\ consents[i].status = "granted"
          /\ consents[i].isActive
          /\ consents[i].validFrom <= now
          /\ now < consents[i].validUntil
          /\ consents[i].permissions.canView
          /\ ~consents[i].permissions.canDownload

\* C5: isValid is (status = granted) and (validFrom <= now) and
\* (now < validUntil) and isActive; a grant from day t0 to day t0 + 30 reads
\* valid on day t0 + 1 and not valid on day t0 + 31, and a grant read at
\* now = validUntil reads not valid.
C5_IsValidFormula ==
    (probe.called /\ probe.action = "isValid") =>
        \A i \in DOMAIN consents :
            LET c == consents[i]
                window == c.status = "granted" /\ c.isActive /\ c.validUntil = c.validFrom + GrantDays
            IN  /\ probe.result = (c.status = "granted" /\ c.validFrom <= now /\ now < c.validUntil /\ c.isActive)
                /\ (window /\ now = c.validFrom + 1) => probe.result
                /\ (window /\ now = c.validFrom + GrantDays + 1) => ~probe.result
                /\ now = c.validUntil => ~probe.result

\* an active grant of thirty days has just been read on its last instant
C5_Witness ==
    /\ probe.called
    /\ probe.action = "isValid"
    /\ ~probe.result
    /\ consents[1].status = "granted"
    /\ consents[1].isActive
    /\ consents[1].validUntil = consents[1].validFrom + GrantDays
    /\ now = consents[1].validUntil

\* C6: when time alone passes to validUntil or beyond, a grant that was valid
\* reads not valid and hasAccess answers false for every action, while the
\* record is not written: its status is still granted.
C6_ExpiryReadDerived ==
    [][(now' > now /\ consents' = consents) =>
         \A i \in DOMAIN consents :
            (isValid(consents[i], now) /\ now' >= consents[i].validUntil) =>
                /\ consents'[i].status = "granted"
                /\ ~isValid(consents'[i], now')
                /\ \A a \in AccessActions :
                      ~hasAccess(consents', now', consents[i].doctorId, consents[i].patientId, a)]_vars

\* a grant made before its validUntil is now past it, still stored as granted
C6_Witness ==
    \E i \in DOMAIN consents :
        /\ consents[i].status = "granted"
        /\ consents[i].isActive
        /\ consents[i].grantedAt # NoDate
        /\ consents[i].grantedAt < consents[i].validUntil
        /\ consents[i].validUntil <= now
        /\ ~hasAccess(consents, now, consents[i].doctorId, consents[i].patientId, "view")

\* C7: under a limited-access consent with a non-empty allowedCategories,
\* getPatientRecords returns exactly the patient's records whose category is in
\* allowedCategories and, when the caller names a category, equal to it.
C7_CategoryScoping ==
    (/\ resp.op = "getPatientRecords"
     /\ resp.code = 200
     /\ resp.consentInfo.type = "limited-access"
     /\ resp.consentInfo.allowedCategories # {})
    => resp.records =
          {r \in records :
              /\ r.patientId = resp.patientId
              /\ r.isActive
              /\ r.category \in resp.consentInfo.allowedCategories
              /\ resp.category # None => r.category = resp.category}

\* C8: every block after the genesis block carries as previousHash the stored
\* hash of the block before it, whichever handlers appended them and however
\* they interleaved.
C8_ChainLinked ==
    \A i \in 2..Len(chain) : chain[i].previousHash = chain[i - 1].hash

\* two handlers running at once have each appended a block
C8_Witness ==
    /\ Len(chain) >= 3
    /\ \E h1, h2 \in Procs :
          /\ h1 # h2
          /\ pc[h1] \in {"ra_save", "gc_save", "rc_record", "gpr_save"}
          /\ pc[h2] \in {"ra_save", "gc_save", "gpr_save"}

\* C9: every block's stored hash is the hash recomputed from its index,
\* previousHash, timestamp, payload and nonce, and isChainValid() is true of a
\* ledger that only the program has written.
C9_HashesMatch ==
    /\ \A i \in DOMAIN chain :
          chain[i].hash = calculateHash(chain[i].index, chain[i].previousHash,
                                        chain[i].timestamp, chain[i].data, chain[i].nonce)
    /\ isChainValid(chain)

\* the ledger holds two appended blocks, one of which took mining
C9_Witness ==
    /\ Len(chain) >= 3
    /\ \E i \in 2..Len(chain) : chain[i].nonce > 0

\* block i still stores the hash of its original payload, which was edited
EditedInPlace(i) ==
    /\ chain[i].data # pristine[i]
    /\ chain[i].hash = calculateHash(chain[i].index, chain[i].previousHash,
                                     chain[i].timestamp, pristine[i], chain[i].nonce)

\* C10: editing the payload of a block after the genesis block in place,
\* without recomputing its hash, makes isChainValid() false; and isChainValid()
\* is false exactly when some block after the genesis block has a stored hash
\* other than its recomputed hash or a previousHash other than the stored hash
\* of the block before it.
C10_TamperDetected ==
    /\ (\E i \in 2..Len(chain) : EditedInPlace(i)) => ~isChainValid(chain)
    /\ isChainValid(chain) =
          ~ \E i \in 2..Len(chain) :
                \/ chain[i].hash # calculateHash(chain[i].index, chain[i].previousHash,
                                                 chain[i].timestamp, chain[i].data, chain[i].nonce)
                \/ chain[i].previousHash # chain[i - 1].hash

\* a chain of three blocks whose second block was edited in place
C10_Witness ==
    /\ Len(chain) = 3
    /\ EditedInPlace(2)
    /\ \A i \in DOMAIN chain : i # 2 => chain[i].data = pristine[i]
    /\ ~isChainValid(chain)

\* C11: the ledger is append-only: every ledger operation leaves the chain
\* it found as a prefix of the chain it leaves; a recorder extends the chain by
\* exactly one block at the tail, and the queries getAuditTrail,
\* getBlocksByType, getStats and isChainValid leave the chain as it was.
C11_AppendOnly ==
    [][/\ Len(chain') >= Len(chain)
       /\ SubSeq(chain', 1, Len(chain)) = chain
       /\ chain' # chain => Len(chain') = Len(chain) + 1
       /\ (probe' # probe /\ probe'.called) => chain' = chain]_vars

\* getStats has just answered on a ledger of three blocks
C11_Witness ==
    /\ Len(chain) = 3
    /\ probe.called
    /\ probe.action = "getStats"
    /\ probe.result.totalBlocks = 3

\* C12: under every interleaving of the handlers that append, the first block
\* is the genesis block with index 0 and previousHash "0", the block at
\* position i has index i, and no two blocks have the same previousHash.
C12_AppendsSerialized ==
    /\ chain[1].index = 0
    /\ chain[1].previousHash = ZeroHash
    /\ chain[1].data = StringData("Genesis Block")
    /\ \A i \in DOMAIN chain : chain[i].index = i - 1
    /\ \A i, j \in DOMAIN chain : chain[i].previousHash = chain[j].previousHash => i = j

\* a request and a grant, both still in flight, have each appended their block
C12_Witness ==
    /\ Len(chain) = 3
    /\ chain[2].data.action = "REQUESTED"
    /\ chain[3].data.action = "GRANTED"
    /\ \A h \in Procs : pc[h] \in {"ra_save", "gc_save"}

\* C13: logActivity never raises to its caller: whatever its arguments, and
\* whether building, validating or saving the entry fails, it returns null;
\* otherwise it returns the saved entry.
C13_LogActivityNeverRaises ==
    (probe.called /\ probe.action = "logActivity") =>
        LET r == probe.result
            fails == \/ ~r.storeUp
                     \/ r.options.isNull
                     \/ r.action \notin AuditActions
                     \/ r.description # "text"
                     \/ r.options.resourceType \notin {None, "user", "record", "consent", "system"}
                     \/ r.options.severity \notin {None, "low", "medium", "high", "critical"}
        IN  /\ ~r.outcome.threw
            /\ fails => r.outcome.value = NoEntry
            /\ ~fails => /\ r.outcome.value # NoEntry
                         /\ r.outcome.value.action = r.action
                         /\ r.outcome.value.actorId = probe.doctorId

\* a well-formed entry met a store that was down, and null came back
C13_Witness ==
    /\ probe.called
    /\ probe.action = "logActivity"
    /\ ~probe.result.storeUp
    /\ probe.result.action = "CONSENT_GRANT"
    /\ probe.result.description = "text"
    /\ probe.result.options = NoOptions
    /\ probe.result.outcome = Returned(NoEntry)

\* C14: when the write of the audit entry fails inside logActivity during a
\* grant whose save went through, the grant still succeeds: the call is
\* answered "Consent granted successfully", and the consent that its save
\* wrote is stored, with status granted where no other handler wrote the
\* record in between.
C14_AuditNonBlocking ==
    [][\A h \in Procs :
         (/\ pc[h] = "gc_save"
          /\ pc'[h] = "idle"
          /\ resp'.audit # "CONSENT_GRANT"
          /\ (local[h].id > 0 \/ \A i \in DOMAIN consents :
                                   ~SamePair(consents[i], local[h].patientId, local[h].doctorId)))
         => /\ resp'.code = 200
            /\ resp'.message = "Consent granted successfully"
            /\ resp'.audit = "failed"
            /\ resp'.consent = local[h].consent
            /\ resp'.consent.status = "granted"
            /\ \E i \in DOMAIN consents' :
                  /\ SamePair(consents'[i], local[h].patientId, local[h].doctorId)
                  /\ consents'[i].blockchainHash = local[h].consent.blockchainHash
                  /\ (local[h].id = 0 \/ consents[local[h].id] = local[h].loaded)
                        => /\ consents'[i] = local[h].consent
                           /\ consents'[i].status = "granted"]_vars

\* a grant has just been answered with success although its audit entry
\* was not written
C14_Witness ==
    /\ resp.op = "grantConsent"
    /\ resp.code = 200
    /\ resp.audit = "failed"
    /\ \E i \in DOMAIN consents :
          /\ SamePair(consents[i], resp.patientId, resp.doctorId)
          /\ consents[i].status = "granted"

NoActiveRecord(patientId, doctorId) ==
    \A i \in DOMAIN consents :
        (consents[i].patientId = patientId /\ consents[i].doctorId = doctorId)
        => ~consents[i].isActive

\* C16: revoke for a pair with no active record (no record at all, or only a
\* record with isActive false) fails with the not-found error and changes
\* nothing: no consent record is created or modified and no block is appended.
C16_RevokeNotFound ==
    [][/\ \A h \in Procs :
            (pc[h] = "idle" /\ pc'[h] = "rc_save")
            => ~NoActiveRecord(local'[h].patientId, local'[h].doctorId)
       /\ (/\ resp = NoResponse
           /\ resp'.op = "revokeConsent"
           /\ pc' = pc
           /\ resp'.doctorId # None
           /\ NoActiveRecord(resp'.patientId, resp'.doctorId))
          => /\ resp'.code = 404
             /\ resp'.message = "Consent not found"
             /\ consents' = consents
             /\ chain' = chain]_vars

\* a revoke has just been refused for a pair whose only record is inactive
C16_Witness ==
    /\ resp.op = "revokeConsent"
    /\ resp.code = 404
    /\ Len(consents) = 1
    /\ consents[1].patientId = resp.patientId
    /\ consents[1].doctorId = resp.doctorId
    /\ consents[1].status = "granted"
    /\ ~consents[1].isActive

\* C17: a revoke of a record that is already revoked either leaves the
\* consent record and the ledger exactly as they were or fails with the
\* not-found error, and the record stays revoked with hasAccess false.
C17_RevokeOfRevoked ==
    [][\A h \in Procs :
         (/\ pc[h] \in {"rc_save", "rc_record"}
          /\ pc'[h] # pc[h]
          /\ local[h].loaded.status = "revoked")
         => /\ consents' = consents
            /\ chain' = chain
            /\ consents'[local[h].id].status = "revoked"
            /\ \A a \in AccessActions :
                  ~hasAccess(consents', now', local[h].doctorId, local[h].patientId, a)]_vars

\* C18: a record in status revoked leaves that status only through a
\* requestAccess, which returns the same record to pending; no operation moves
\* a record from revoked directly to granted, and no operation moves a pending
\* or valid granted record back to pending.
C18_StatusMachine ==
    [][\A i \in DOMAIN consents :
         /\ (consents[i].status = "revoked" /\ consents'[i].status # "revoked")
            => /\ consents'[i].status = "pending"
               /\ \E h \in Procs : pc[h] = "ra_save" /\ pc'[h] = "idle" /\ local[h].id = i
         /\ ~(consents[i].status = "revoked" /\ consents'[i].status = "granted")
         /\ (consents[i].status = "granted" /\ consents[i].validFrom <= now
             /\ now < consents[i].validUntil /\ consents[i].isActive)
            => consents'[i].status # "pending"]_vars

\* C19: a requestAccess whose validUntil is missing or is not after the
\* current time fails validation, for a new record and for a revoked or
\* expired record that it reuses: no such request passes validation and goes
\* on to its save.
C19_ValidUntilAfterNow ==
    [][\A h \in Procs :
         (pc[h] = "idle" /\ pc'[h] = "ra_save")
         => /\ local'[h].consent.validUntil # NoDate
            /\ local'[h].consent.validUntil > now]_vars

\* C20: every stored consent has validUntil after validFrom, whatever
\* requestAccess, grant and extend calls were made; an extend that would put
\* validUntil at or before validFrom is rejected and leaves the collection as
\* it was; and a new document with valid enum values, a non-empty
\* blockchainHash and validUntil thirty days after its creation passes
\* validation.
C20_ValidUntilAfterValidFrom ==
    [][/\ \A i \in DOMAIN consents' : consents'[i].validUntil > consents'[i].validFrom
       /\ (resp = NoResponse /\ resp'.op = "extend")
          => IF resp'.consent.validUntil <= resp'.consent.validFrom
             THEN resp'.message = "rejected" /\ consents' = consents
             ELSE resp'.message = "resolved"
       /\ (/\ resp = NoResponse
           /\ resp'.op = "validate"
           /\ resp'.consent.status \in {"pending", "granted", "revoked", "expired"}
           /\ resp'.consent.consentType = "limited-access"
           /\ resp'.consent.blockchainHash # ZeroHash
           /\ resp'.consent.validUntil = resp'.consent.validFrom + GrantDays)
          => resp'.message = "resolved"]_vars

\* an extend by a negative number of days has just been rejected
C20_Witness ==
    /\ resp.op = "extend"
    /\ resp.message = "rejected"
    /\ resp.consent.validUntil <= resp.consent.validFrom
    /\ Len(consents) = 1
    /\ consents[1].validUntil > consents[1].validFrom

\* C21: a grant on an existing record sets status granted and leaves
\* grantedAt set, applies the consentType, permissions, allowedCategories and
\* validUntil that its body supplies, and keeps the stored consentType,
\* permissions and allowedCategories when its body does not supply them.
C21_GrantKeepsUnsupplied ==
    [][\A h \in Procs :
         (pc[h] = "idle" /\ pc'[h] = "gc_save" /\ local'[h].id > 0)
         => LET b == local'[h].body
                c == local'[h].consent
                stored == consents[local'[h].id]
            IN  /\ c.status = "granted"
                /\ c.grantedAt # NoDate
                /\ c.validUntil # NoDate
                /\ c.consentType = IF b.consentType # "" THEN b.consentType ELSE stored.consentType
                /\ c.permissions = IF b.hasPermissions THEN b.permissions ELSE stored.permissions
                /\ c.allowedCategories = IF b # NoBody THEN b.allowedCategories
                                         ELSE stored.allowedCategories]_vars

\* C22: a grant made with the parameters of the grant written just before
\* it, on the record as that grant left it, leaves the record's status,
\* consentType, permissions, allowedCategories, validUntil and isActive as
\* they were, and the pair still has exactly one record.
C22_RegrantIdempotent ==
    [][\A h \in Procs :
         (pc[h] = "gc_save" /\ pc'[h] = "idle" /\ SameGrantAgain(local[h]))
         => /\ GrantView(consents'[local[h].id]) = GrantView(probe.result.record)
            /\ Cardinality({i \in DOMAIN consents' :
                  SamePair(consents'[i], local[h].patientId, local[h].doctorId)}) = 1
            /\ resp'.code = 200]_vars

\* the second of two grants with the same parameters has been written
C22_Witness ==
    /\ probe.called
    /\ probe.result.again
    /\ probe.result.body # NoBody
    /\ resp.op = "grantConsent"
    /\ resp.code = 200
    /\ Len(chain) = 3
    /\ GrantView(consents[1]) = GrantView(probe.result.record)

\* C23: extend(days) with days > 0 is written, moves the stored validUntil
\* forward by exactly days, and leaves every other field of the record as it
\* was: status, consentType, permissions, allowedCategories, isActive and
\* accessHistory; a revoked or pending record does not become granted.
C23_ExtendMovesValidUntilOnly ==
    [][(resp = NoResponse /\ resp'.op = "extend")
       => /\ resp'.message = "resolved"
          /\ \E days \in {d \in ExtendDays : d > 0} :
                consents' = [consents EXCEPT ![1].validUntil = consents[1].validUntil + days]
          /\ consents'[1].validUntil > consents[1].validUntil
          /\ consents'[1].status = consents[1].status
          /\ consents'[1].accessHistory = consents[1].accessHistory]_vars

\* a revoked record has been extended
C23_Witness ==
    /\ resp.op = "extend"
    /\ resp.message = "resolved"
    /\ consents[1].status = "revoked"
    /\ consents[1].validUntil = consents[1].validFrom + 2
    /\ resp.consent.validUntil = consents[1].validUntil

\* C24: a call of recordAccess is never rejected, whatever its action and
\* the status of the consent; it appends exactly one entry, with the action
\* and recordId given, to the end of accessHistory and leaves every other
\* field of the record as it was.
C24_RecordAccessAppends ==
    [][(resp = NoResponse /\ resp'.op = "recordAccess")
       => LET given == resp'.consent.accessHistory
          IN  /\ resp'.message = "resolved"
              /\ Len(given) = Len(consents[1].accessHistory) + 1
              /\ consents' = [consents EXCEPT
                                ![1].accessHistory = Append(@, given[Len(given)])]]_vars

\* C25: no request, grant, revoke, extend or recordAccess removes a consent
\* record, and the accessHistory a record had before a step is a prefix of
\* the one it has after it, also across a revoke and the request that then
\* reuses the record.
C25_HistoryPreserved ==
    [][/\ Len(consents') >= Len(consents)
       /\ \A i \in DOMAIN consents :
            /\ SamePair(consents'[i], consents[i].patientId, consents[i].doctorId)
            /\ Len(consents'[i].accessHistory) >= Len(consents[i].accessHistory)
            /\ SubSeq(consents'[i].accessHistory, 1, Len(consents[i].accessHistory))
                  = consents[i].accessHistory]_vars

\* a revoked record with a history has been reused by a request
C25_Witness ==
    /\ resp.op = "requestAccess"
    /\ resp.code = 201
    /\ consents[1].status = "pending"
    /\ consents[1].revokedAt # NoDate
    /\ Len(consents[1].accessHistory) >= 1
    /\ consents[1].accessHistory[1].accessedAt = 0

\* C26: getAuditTrail(userId) answers with exactly the blocks whose payload
\* is an object that names userId in patientId, doctorId, actorId, targetId,
\* uploaderId or userId, each once, latest first; the genesis block and a
\* block that names userId only in another field are not among them.
C26_AuditTrailExact ==
    [][(probe'.called /\ probe'.action = "getAuditTrail" /\ probe' # probe)
       => LET res == probe'.result
              userId == probe'.doctorId
              named == {i \in DOMAIN chain :
                          /\ chain[i].data.isObject
                          /\ \E f \in {"patientId", "doctorId", "actorId", "targetId", "uploaderId", "userId"} :
                                chain[i].data[f] = userId}
          IN  /\ Len(res) = Cardinality(named)
              /\ \A i \in named : \E k \in DOMAIN res : res[k] = BlockEntry(chain[i])
              /\ \A k \in DOMAIN res : res[k].blockIndex # 0
              /\ \A k \in DOMAIN res :
                    (res[k].data.verifierId = userId) => (res[k].data.userId = userId)
              /\ \A k \in 1..(Len(res) - 1) : res[k].timestamp >= res[k + 1].timestamp]_vars

\* the trail of d1 has two blocks, the later one first, on a ledger that also
\* holds the genesis block
C26_Witness ==
    /\ probe.called
    /\ probe.action = "getAuditTrail"
    /\ probe.doctorId = "d1"
    /\ Len(chain) = 3
    /\ Len(probe.result) = 2
    /\ probe.result[1].blockIndex = 2
    /\ probe.result[1].timestamp > probe.result[2].timestamp

\* C27: every block after the genesis block has a hash that starts with
\* `difficulty` zeros, and its nonce is the smallest one, counted from 0, whose
\* hash does; no block is in the chain before its search has ended.
C27_ProofOfWork ==
    \A i \in 2..Len(chain) :
        LET b == chain[i]
        IN  /\ Len(b.hash.lead) >= difficulty
            /\ \A k \in 1..difficulty : b.hash.lead[k] = 0
            /\ b.nonce >= 0
            /\ b.hash = calculateHash(b.index, b.previousHash, b.timestamp, b.data, b.nonce)
            /\ \A n \in 0..(b.nonce - 1) :
                  \E k \in 1..difficulty :
                      calculateHash(b.index, b.previousHash, b.timestamp, b.data, n).lead[k] # 0

\* the ledger holds a block that took two or more increments and a block
\* whose first hash already met the target
C27_Witness ==
    /\ \E i \in 2..Len(chain) : chain[i].nonce >= 2
    /\ \E i \in 2..Len(chain) : chain[i].nonce = 0

\* C28: the stored status of every consent is pending, granted or revoked,
\* never expired; a grant that has run out keeps the status granted, and is
\* told from a valid one only by the comparison of now with validUntil, which
\* makes isValid and hasAccess false.
C28_ExpiredNeverStored ==
    \A i \in DOMAIN consents :
        /\ consents[i].status \in {"pending", "granted", "revoked"}
        /\ (consents[i].status = "granted" /\ now >= consents[i].validUntil)
           => /\ ~isValid(consents[i], now)
              /\ \A a \in AccessActions :
                    ~hasAccess(consents, now, consents[i].doctorId, consents[i].patientId, a)

\* a grant has run out and is still stored as granted
C28_Witness ==
    /\ Len(consents) = 1
    /\ consents[1].status = "granted"
    /\ consents[1].grantedAt = 0
    /\ now >= consents[1].validUntil
    /\ \A h \in Procs : pc[h] = "idle"

\* C29: a requestAccess or grantConsent that answers with an error leaves
\* the ledger as it was: the step that answers appends no block, and no block
\* of the ledger was appended by a call that then fails in its save.
C29_ErrorLeavesLedger ==
    [][(/\ resp = NoResponse
        /\ resp'.op \in {"requestAccess", "grantConsent"}
        /\ resp'.code >= 400)
       => /\ chain' = chain
          /\ \A h \in Procs :
               (pc[h] \in {"ra_save", "gc_save"} /\ pc'[h] = "idle")
               => \A i \in DOMAIN chain : chain[i].hash # local[h].consent.blockchainHash]_vars

\* the action that the ledger should show last for a stored status
ActionOfStatus(status) ==
    CASE status = "pending" -> "REQUESTED"
      [] status = "granted" -> "GRANTED"
      [] status = "revoked" -> "REVOKED"
      [] OTHER -> None

\* the positions of the CONSENT blocks of a pair
ConsentBlocks(patientId, doctorId) ==
    {i \in DOMAIN chain : /\ chain[i].data.isObject
                          /\ chain[i].data.type = "CONSENT"
                          /\ chain[i].data.patientId = patientId
                          /\ chain[i].data.doctorId = doctorId}

\* C30: when no operation is in flight, the latest CONSENT block of a pair,
\* if the ledger holds one, shows the action of the pair's stored status:
\* REQUESTED for pending, GRANTED for granted, REVOKED for revoked.
C30_LedgerAgreesWithStatus ==
    (\A h \in Procs : pc[h] = "idle")
    => \A i \in DOMAIN consents :
         LET blocks == ConsentBlocks(consents[i].patientId, consents[i].doctorId)
         IN  blocks # {}
             => chain[CHOOSE k \in blocks : \A j \in blocks : j <= k].data.action
                   = ActionOfStatus(consents[i].status)

\* C31: in getPatientRecords, after hasAccess has answered true, the lookup
\* of the consent that follows finds a record, and the handler does not end
\* in an internal error, whatever revoke or request runs beside it.
C31_LookupFindsConsent ==
    [][\A h \in Procs :
         pc[h] = "gpr_lookup"
         => /\ \E i \in DOMAIN consents :
                  /\ SamePair(consents[i], local[h].patientId, local[h].doctorId)
                  /\ consents[i].status = "granted"
                  /\ consents[i].isActive
            /\ (pc'[h] = "idle" => resp'.code # 500)]_vars

\* C32: a doctor whose valid consent for the patient is limited-access with
\* allowedCategories not empty is never answered, by getRecordContent, with
\* the content of a record of that patient whose category is not among them.
C32_ContentCategoryScoped ==
    [][\A h \in Procs :
         (pc[h] = "idle" /\ pc'[h] = "grc_record")
         => \A i \in DOMAIN consents :
              (/\ SamePair(consents[i], local'[h].patientId, local'[h].doctorId)
               /\ isValid(consents[i], now)
               /\ consents[i].consentType = "limited-access"
               /\ consents[i].allowedCategories # {})
              => \A r \in local'[h].found : r.category \in consents[i].allowedCategories]_vars

\* C33: under a valid limited-access consent whose allowedCategories is empty,
\* getPatientRecords restricts the records by no category of the consent: it
\* finds every active record of the patient (of the requested category, when
\* the request names one), as under a full-access consent.
C33_EmptyCategoriesUnrestricted ==
    [][\A h \in Procs :
         (/\ pc[h] = "gpr_lookup"
          /\ pc'[h] = "gpr_record"
          /\ local'[h].consent.consentType = "limited-access"
          /\ local'[h].consent.allowedCategories = {})
         => local'[h].found = {r \in records : /\ r.patientId = local[h].patientId
                                               /\ r.isActive
                                               /\ (local[h].category # None
                                                     => r.category = local[h].category)}]_vars

\* a doctor is answered with the records of all three categories under a
\* limited-access consent without categories
C33_Witness ==
    /\ resp.op = "getPatientRecords"
    /\ resp.code = 200
    /\ resp.category = None
    /\ resp.consentInfo.type = "limited-access"
    /\ resp.consentInfo.allowedCategories = {}
    /\ resp.records = SeedRecords

\* the doctor's operations on a patient's records, and the permission each asks for
DoctorOps == {"getPatientRecords", "getRecordContent", "addRecordUpdate"}

PermissionOf(op) == IF op = "addRecordUpdate" THEN "update" ELSE "view"

\* C34: a denied operation of a doctor changes no core state.  A doctor's
\* operation goes past its access check only when hasAccess is true; when it
\* is answered at the check (and not with 400 or 404 for its input) the answer
\* is 403 and hasAccess is false; and the step that answers 403 leaves the
\* ledger, the consents (with their access histories) and the records as they were.
C34_DeniedChangesNothing ==
    [][/\ \A h \in Procs :
            (pc[h] = "idle" /\ pc'[h] \in {"gpr_lookup", "grc_record", "aru_save"})
            => hasAccess(consents, now, local'[h].doctorId, local'[h].patientId,
                         PermissionOf(local'[h].op))
       /\ (/\ resp = NoResponse
           /\ resp'.op \in DoctorOps
           /\ pc' = pc
           /\ resp'.code \notin {400, 404})
          => /\ resp'.code = 403
             /\ ~hasAccess(consents, now, resp'.doctorId, resp'.patientId, PermissionOf(resp'.op))
       /\ (resp = NoResponse /\ resp'.op \in DoctorOps /\ resp'.code = 403)
          => /\ chain' = chain
             /\ consents' = consents
             /\ records' = records]_vars

\* a doctor whose granted consent has no update permission is refused an
\* update after the ledger has grown
C34_Witness ==
    /\ resp.op = "addRecordUpdate"
    /\ resp.code = 403
    /\ Len(consents) = 1
    /\ isValid(consents[1], now)
    /\ Len(chain) > 1

\* block i of ledger c is an ACCESS block of a VIEW by doctor d on patient p
IsViewBlock(c, i, d, p) ==
    /\ i \in DOMAIN c
    /\ c[i].data.isObject
    /\ c[i].data.type = "ACCESS"
    /\ c[i].data.actorId = d
    /\ c[i].data.targetId = p
    /\ c[i].data.action = "VIEW"

\* block i of ledger c is among the entries of getAuditTrail(p)
InTrail(c, i, p) ==
    \E k \in DOMAIN getAuditTrail(c, p) : getAuditTrail(c, p)[k] = BlockEntry(c[i])

\* C35: every allowed read of a doctor is visible to the patient.  When
\* getPatientRecords or getRecordContent of doctor d on patient p is answered
\* 200, the ledger holds an ACCESS block with actorId d, targetId p and action
\* VIEW that getAuditTrail(p) returns; and a block of this kind stays the same
\* block, returned by getAuditTrail(p), in every later state of the ledger.
C35_ReadsVisible ==
    [][/\ (resp'.op \in {"getPatientRecords", "getRecordContent"} /\ resp'.code = 200)
          => \E i \in DOMAIN chain' :
                /\ IsViewBlock(chain', i, resp'.doctorId, resp'.patientId)
                /\ InTrail(chain', i, resp'.patientId)
       /\ \A i \in DOMAIN chain, d \in Doctors, p \in Patients :
             IsViewBlock(chain, i, d, p)
             => /\ chain'[i] = chain[i]
                /\ InTrail(chain', i, p)]_vars

\* the content of a record has been returned to d1, and the trail of p1 has
\* the read's block first, on a ledger that has grown since
C35_Witness ==
    /\ resp.op = "getRecordContent"
    /\ resp.code = 200
    /\ Len(chain) = 3
    /\ IsViewBlock(chain, 2, "d1", "p1")
    /\ chain[2].data.recordId # None
    /\ InTrail(chain, 2, "p1")
    /\ Len(getAuditTrail(chain, "p1")) = 2

\* C36: the gate validatePatientAccess.  For a doctor it calls next() when
\* Consent.hasAccess(doctor, patientId, 'view') is true and answers 403 when
\* it is false; a patient passes exactly for their own patientId.
C36_GateFollowsAccess ==
    [][(resp = NoResponse /\ resp'.op = "validatePatientAccess")
       => LET user == resp'.doctorId
              patientId == resp'.patientId
          IN  /\ RoleOf(user) = "doctor"
                 => IF hasAccess(consents, now, user, patientId, "view")
                    THEN resp'.code = 200
                    ELSE resp'.code = 403
              /\ RoleOf(user) = "patient"
                 => (resp'.code = 200 <=> user = patientId)]_vars

\* C37: pairs are isolated.  The operations of SpecPairs (request, grant,
\* revoke, extend, recordAccess) are all on the pair (p1, d1): every step
\* leaves the document of every other pair as it was and stores no new
\* document for another pair, and unless the clock moves hasAccess of every
\* other pair is the same after the step as before it, for every action.
C37_PairsIsolated ==
    [][/\ \A i \in DOMAIN consents :
            (consents[i].patientId # "p1" \/ consents[i].doctorId # "d1")
            => /\ i \in DOMAIN consents'
               /\ consents'[i] = consents[i]
       /\ \A i \in DOMAIN consents' :
            i \notin DOMAIN consents
            => (consents'[i].patientId = "p1" /\ consents'[i].doctorId = "d1")
       /\ now' = now
          => \A p \in {"p1", "p2"}, d \in {"d1", "d2"}, action \in AccessActions :
                (p # "p1" \/ d # "d1")
                => (hasAccess(consents', now', d, p, action) <=> hasAccess(consents, now, d, p, action))]_vars

\* the pair (p1, d1) has been given a document, granted and then revoked, and
\* d2 still has access to p1 while d1 has none
C37_Witness ==
    /\ resp.op = "revokeConsent"
    /\ resp.code = 200
    /\ Len(consents) = 3
    /\ consents[3].doctorId = "d1"
    /\ consents[3].patientId = "p1"
    /\ consents[3].status = "revoked"
    /\ hasAccess(consents, now, "d2", "p1", "view")
    /\ ~hasAccess(consents, now, "d1", "p1", "view")

====
